---- MODULE Spec2Model ----
(***************************************************************************)
(* State-machine models of the components of the web clients that carry    *)
(* behaviour: the WireGuard configuration section, the Curve25519 key      *)
(* helpers, the email reminder widget, the signup account step, the CSS    *)
(* logical-properties polyfill and the download context.                   *)
(*                                                                         *)
(* A React function component is modelled by its committed state plus the  *)
(* closures that outlive a render: a memoised callback (useCallback) keeps *)
(* the values of the render that created it, and an async handler keeps    *)
(* the values of the render in which it was started.  Every action is one  *)
(* event handler or one resumption of an async function, followed by the   *)
(* re-render it causes.                                                    *)
(***************************************************************************)
EXTENDS Integers, Sequences, FiniteSets, TLC

VARIABLES
    \* ---- WireGuardConfigurationSection ----
    creating,            \* useState<boolean>
    peer,                \* useState<Peer>, identified by its entry IP
    maxTier,             \* userVPN.MaxTier || 0
    certificates,        \* useState<Certificate[]>
    removedCertificates, \* useState<string[]>
    removing,            \* useState<Record<string, boolean>>, as the set of its keys
    certificateCache,    \* useRef<Record<string, Certificate>>
    certificatesResult,  \* result of useCertificates
    memo,                \* values captured by the memoised selectLogical
    ops,                 \* async handlers in flight, each with its closure
    nextId,              \* count of certificate ids handed out
    nextKey,             \* count of key pairs generated
    lastClick,           \* history: what the last action did, if a click on a creating control
    lastNote,            \* the notification the last action created, if any
    deletedOk,           \* history: fingerprints whose delete returned Count > 0
    lastKey,             \* what the last step did, if it ended a call of getKeyPair
    \* ---- randomPrivateKey and getX25519PrivateKey ----
    curve,               \* whether CURVE is defined (BigInt is supported)
    rpkPc,               \* where the call is: start, loop, returned, thrown, derived
    rpkI,                \* the loop counter i of randomPrivateKey
    rpkDraws,            \* history: calls of getRandomValues so far
    rpkMissed,           \* history: the loop went on after a sample in the range
    rpkResult,           \* the Uint8Array returned, <<>> before
    xHashed,             \* history: the bytes given to utils.sha512
    xDigest,             \* history: the digest utils.sha512 returned
    xResult,             \* the string getX25519PrivateKey returned, <<>> before
    \* ---- initLogicalProperties ----
    supports,            \* CSS.supports('(border-start-start-radius: 1em)')
    lpPc,                \* before or after the call of initLogicalProperties
    observer,            \* whether the MutationObserver observes document.head
    doc,                 \* the nodes of the document, each with its first href
    \* ---- AccountStep ----
    defaultSignupType,   \* the prop, after its default
    hasExternalSignup,   \* the prop
    signupType,
    username,
    email,
    password,
    confirmPassword,
    recoveryEmail,
    loading,             \* the flag of useLoading
    counterRef,          \* useLoading's count of the promises it was given
    loginModal,          \* whether the sign-in prompt is open
    runs,                \* the calls of run() that have not settled
    lastSubmit,          \* what the last step did, if it was a handleSubmit
    lastTyped,           \* what the last step did, if a change of the username or a switch
    \* ---- EmailReminderWidget ----
    message,             \* the ID of the message the widget is given
    mounted,             \* what isMounted() returns
    isLoading,
    error,               \* the banner of setError, "none" for null
    loadedWidget,        \* a message ID, 0 for '' and undefined
    refreshCount,
    calendar,            \* the message whose calendar is set, 0 for undefined
    calendarEvent,       \* the message whose event is set, 0 for undefined
    vevent,              \* the message whose vevent is set, 0 for undefined
    loads,               \* the runs of the load effect that have not ended
    fetches,             \* the calls of fetchEvent still running after their load ended
    loadCount,           \* the loads started so far
    lastEnd,             \* what the last step did, if it ended a load
    \* ---- DownloadProvider ----
    downloads,           \* the transfers of the download hook, by link
    lastUse,             \* what the last step did, if it called useDownloadProvider
    uidPc,               \* where the search by UID of a load is: asked or answered
    uidOccurrence,       \* parseInt of the occurrence header
    uidEvents,           \* the events getPaginatedEventsByUID returned
    uidResult,           \* what fetchEvent(true) threw or returned
    labelID,             \* the label of the list
    isSearch,            \* the prop
    esStatus,            \* what getESDBStatus returns
    borderBottom,        \* the prop
    sort,                \* the Sort value of the parent
    lastOption,          \* the option the last step clicked, none otherwise
    blPc,                \* whether the section has rendered with the loaded servers
    blLogicals,          \* logicalsResult.LogicalServers
    blMaxTier,           \* userVPN.MaxTier || 0
    blBest,              \* the Name of bestLogical, 0 when undefined
    elements,            \* the elements prop of SelectAll
    selectedIDs,         \* the selectedIDs prop
    disabled,            \* the disabled prop
    lastCheck,           \* the call of onCheck made by the last step
    provider,            \* the provider given to getScopeFromProvider
    checkedTypes,        \* the checked products
    scopes,              \* the list getScopeFromProvider returned
    scopePc,             \* whether getScopeFromProvider has been called
    model,               \* the model prop of CreateEventCalendarSelect
    frozen,              \* the frozen prop
    calendarChange,      \* the call of handleChangeCalendar in progress
    lastChange           \* how the last step ended a call of handleChangeCalendar

wgVars == <<creating, peer, maxTier, certificates,
            removedCertificates, removing, certificateCache, certificatesResult,
            memo, ops, nextId, nextKey, lastClick, lastNote, deletedOk,
            lastKey>>

keyVars == <<curve, rpkPc, rpkI, rpkDraws, rpkMissed, rpkResult, xHashed, xDigest,
             xResult>>

lpVars == <<supports, lpPc, observer, doc>>

suVars == <<defaultSignupType, hasExternalSignup, signupType, username, email,
            password, confirmPassword, recoveryEmail, loading, counterRef,
            loginModal, runs, lastSubmit, lastTyped>>

rwVars == <<message, mounted, isLoading, error, loadedWidget, refreshCount,
            calendar, calendarEvent, vevent, loads, fetches, loadCount,
            lastEnd>>

dlVars == <<downloads, lastUse>>

uidVars == <<uidPc, uidOccurrence, uidEvents, uidResult>>

sortVars == <<labelID, isSearch, esStatus, borderBottom, sort, lastOption>>

bestVars == <<blPc, blLogicals, blMaxTier, blBest>>

selVars == <<elements, selectedIDs, disabled, lastCheck>>

scopeVars == <<provider, checkedTypes, scopes, scopePc>>

calVars == <<model, frozen, calendarChange, lastChange>>

vars == <<wgVars, keyVars, lpVars, suVars, rwVars, dlVars,
         uidVars,
         sortVars,
         bestVars,
         selVars,
         scopeVars,
         calVars>>

(***************************************************************************)
(* Bounds of the model.                                                    *)
(***************************************************************************)
MaxOps == 2        \* async handlers in flight at once
MaxNodes == 2      \* nodes of the document
MaxSubmits == 2    \* calls of run() in one session of the signup form
MaxLoads == 3      \* loads the email reminder widget starts
MaxRefresh == 2    \* calls of the widget's refresh
MaxDownloads == 3  \* links that can be downloaded
MaxNew == 2        \* certificates issued (created or extended) in a session
MaxKeys == 1       \* key pairs generated in a session
MaxSessionKeys == 2 \* key pairs generated in a session that only creates
MaxEvents == 3     \* events a search by UID returns
MaxElements == 2   \* elements of the mail list, and selected IDs
MaxLogicals == 2   \* logical servers loaded, where the choice of the best is checked
MaxExp == 2        \* expiration times 1..MaxExp
NumPreloaded == 1  \* certificates the server list can report at load

(***************************************************************************)
(* Sequence helpers.                                                       *)
(***************************************************************************)
InSeq(x, s) == \E i \in 1..Len(s) : s[i] = x

RemoveAt(s, i) == [j \in 1..(Len(s) - 1) |-> IF j < i THEN s[j] ELSE s[j + 1]]

(***************************************************************************)
(* Certificates.                                                           *)
(***************************************************************************)
privateKeyPlaceholder == 0

Fingerprints == 1..(NumPreloaded + MaxSessionKeys)

NoCert == [id |-> 0, fp |-> 0, exp |-> 0, priv |-> 0]

\* getCertificateModel: the id is the one given, else the DTO's (assigned once);
\* the private key is the one given, else the placeholder.
getCertificateModel(dto, privateKey) ==
    [id   |-> dto.id,
     fp   |-> dto.fp,
     exp  |-> dto.exp,
     priv |-> IF privateKey # 0 THEN privateKey ELSE privateKeyPlaceholder]

\* certificateCache[fp]?.expirationTime || 0
CachedExp(cache, fp) == IF cache[fp] = NoCert THEN 0 ELSE cache[fp].exp

\* first loop of getCertificates, over certificatesResult
RECURSIVE ApplyDtos(_, _, _)
ApplyDtos(cache, dtos, removed) ==
    IF dtos = <<>> THEN cache
    ELSE LET d == Head(dtos)
             skip == InSeq(d.fp, removed) \/ d.exp < CachedExp(cache, d.fp)
         IN ApplyDtos(IF skip THEN cache
                      ELSE [cache EXCEPT ![d.fp] = getCertificateModel(d, 0)],
                      Tail(dtos), removed)

\* second loop of getCertificates, over certificates
RECURSIVE ApplyCertificates(_, _, _)
ApplyCertificates(cache, certs, removed) ==
    IF certs = <<>> THEN cache
    ELSE LET c == Head(certs)
             skip == InSeq(c.fp, removed) \/ c.exp < CachedExp(cache, c.fp)
         IN ApplyCertificates(IF skip THEN cache ELSE [cache EXCEPT ![c.fp] = c],
                              Tail(certs), removed)

\* getCertificates mutates the cache; the list rendered is Object.values of it.
getCertificates(cache, result, certs, removed) ==
    ApplyCertificates(ApplyDtos(cache, result, removed), certs, removed)

Listed(cache) == {cache[fp] : fp \in {f \in Fingerprints : cache[f] # NoCert}}

(***************************************************************************)
(* Logical servers, as loaded by queryVPNLogicalServerInfo.  A server is   *)
(* named by its entry IP; x says whether it has an X25519 public key.      *)
(***************************************************************************)
DefaultPeer == 0

LogicalServers ==
    << [Name |-> 1, Tier |-> 1, Score |-> 2, Features |-> 0,
        Servers |-> << [ip |-> 1, x |-> TRUE] >>],
       [Name |-> 2, Tier |-> 1, Score |-> 1, Features |-> 0,
        Servers |-> << [ip |-> 2, x |-> TRUE], [ip |-> 3, x |-> FALSE] >>] >>

\* logicals: every logical keeps its servers with an X25519 key; those left
\* without any server are dropped.
WithX25519(l) == [l EXCEPT !.Servers = SelectSeq(l.Servers, LAMBDA s : s.x)]

HasServers(l) == Len(l.Servers) > 0

logicalsOf(result) ==
    SelectSeq([i \in 1..Len(result) |-> WithX25519(result[i])], HasServers)

logicals == logicalsOf(LogicalServers)

\* the filter of bestLogicals without the test of the features
bestLogicalsAnyFeature(ls, tier) == SelectSeq(ls, LAMBDA l : l.Tier <= tier)

\* bestLogicals: the filter by tier and features; the stable sort by Score puts
\* first the earliest element whose Score is minimal.
bestLogicalsOf(ls, tier) ==
    SelectSeq(ls, LAMBDA l : l.Tier <= tier /\ (l.Features % 4) = 0)

bestLogicals(tier) == bestLogicalsOf(logicals, tier)

HasBest(tier) == Len(bestLogicals(tier)) > 0

\* bestLogicals[0] after the sort
FirstByScore(b) ==
    LET i == CHOOSE k \in 1..Len(b) :
                 /\ \A j \in 1..Len(b) : b[k].Score <= b[j].Score
                 /\ \A j \in 1..(k - 1) : b[j].Score > b[k].Score
    IN b[i]

bestLogical(tier) == FirstByScore(bestLogicals(tier))

(***************************************************************************)
(* Closures.                                                               *)
(***************************************************************************)
\* useCallback(selectLogical, [peer, getFeatureValues, platform]): the callback,
\* and the add it calls, is replaced only in a render where peer, platform or
\* featuresConfig differ from the previous render; it then captures that
\* render's values.  Platform and features only appear in the config text, so
\* the model keeps the fact that they changed and not their values.
Memoise(m, depsChanged, newCreating, newCerts) ==
    IF depsChanged
    THEN [creating |-> newCreating, certificates |-> newCerts]
    ELSE m

Op(kind, phase, certs, removed, removingC, cert) ==
    [kind |-> kind, phase |-> phase, certs |-> certs, removed |-> removed,
     removingC |-> removingC, cert |-> cert, key |-> 0, src |-> "none"]

IsCreation(o) == o.kind \in {"add", "extend"}

CreationOps == {i \in 1..Len(ops) : IsCreation(ops[i])}

\* certificate requests (generateCertificate) sent and not yet answered
RequestsInFlight == {i \in 1..Len(ops) : IsCreation(ops[i]) /\ ops[i].phase = "cert"}

Idle == CreationOps = {} /\ ~creating

\* the bounds leave room for one more attempt
CanStart == Len(ops) < MaxOps /\ nextId + Cardinality(CreationOps) < MaxNew

KeysStarted == nextKey + Cardinality({i \in 1..Len(ops) : ops[i].phase = "key"})

CanGenerate == KeysStarted < MaxKeys

NoClick == [idle |-> FALSE, started |-> FALSE]

\* no call of getKeyPair ended in the last step
NoKey == [called |-> FALSE, client |-> FALSE, server |-> FALSE, result |-> "none"]

\* what no handler of the section ever writes
wgFixed == <<maxTier, certificatesResult>>

(***************************************************************************)
(* Initial state: the first render after the certificates and the logical  *)
(* servers have loaded.  That render calls selectLogical(bestLogical,      *)
(* true), which picks one of the best logical's servers as the peer.       *)
(***************************************************************************)
PreloadedDto(i) == [id |-> i, fp |-> i, exp |-> 1]

InitialPeers(tier) ==
    IF HasBest(tier)
    THEN {bestLogical(tier).Servers[i].ip : i \in 1..Len(bestLogical(tier).Servers)}
    ELSE {DefaultPeer}

WgInit ==
    /\ creating = FALSE
    /\ maxTier \in 0..1
    /\ peer \in InitialPeers(maxTier)
    /\ certificates = <<>>
    /\ removedCertificates = <<>>
    /\ removing = {}
    /\ \E n \in 0..NumPreloaded :
          certificatesResult = [i \in 1..n |-> PreloadedDto(i)]
    /\ certificateCache =
          getCertificates([f \in Fingerprints |-> NoCert], certificatesResult, <<>>, <<>>)
    /\ memo = [creating |-> FALSE, certificates |-> <<>>]
    /\ ops = <<>>
    /\ nextId = 0
    /\ nextKey = 0
    /\ lastClick = NoClick
    /\ lastNote = "none"
    /\ deletedOk = {}
    /\ lastKey = NoKey

\* the render that follows a handler calls getCertificates
Render(certs, removed) ==
    certificateCache' = getCertificates(certificateCache, certificatesResult, certs, removed)

(***************************************************************************)
(* add, as called by the memoised selectLogical: its guard reads the       *)
(* creating of the render that memoised selectLogical.                     *)
(***************************************************************************)
AddStarts(m) == ~m.creating

\* selectLogical(logical, silent = false, doAdd = true) with the server drawn
\* by Math.random(); setCreating(true) from add and setPeer are batched into
\* one render.
SelectLogical(l, s, room) ==
    LET starts == AddStarts(memo)
    IN /\ (starts => room)
       /\ lastClick' = [idle |-> Idle, started |-> starts]
       /\ lastNote' = "creating"
       /\ lastKey' = NoKey
       /\ creating' = (IF starts THEN TRUE ELSE creating)
       /\ ops' = (IF starts
                  THEN Append(ops, Op("add", "key", memo.certificates, <<>>, {}, NoCert))
                  ELSE ops)
       /\ peer' = l.Servers[s].ip
       /\ memo' = Memoise(memo, peer' # peer, creating', certificates)
       /\ Render(certificates, removedCertificates)
       /\ UNCHANGED <<wgFixed, certificates, removedCertificates, removing,
                      nextId, nextKey, deletedOk>>

SelectLogicalAndAdd(l, s) == SelectLogical(l, s, CanStart /\ CanGenerate)

\* handleFormSubmit: the Create button, rendered when a best server exists
ClickCreate ==
    /\ HasBest(maxTier)
    /\ \E s \in 1..Len(bestLogical(maxTier).Servers) :
          SelectLogicalAndAdd(bestLogical(maxTier), s)

\* select of the server list: createWithLogical(logical)
ClickServer ==
    \E i \in 1..Len(LogicalServers) : \E s \in 1..Len(LogicalServers[i].Servers) :
        SelectLogicalAndAdd(LogicalServers[i], s)

\* a platform radio button or a feature control: setPlatform(value) with another
\* value, setFeature(key, value)
SetPlatform ==
    /\ memo' = Memoise(memo, TRUE, creating, certificates)
    /\ lastClick' = NoClick
    /\ lastNote' = "none"
    /\ lastKey' = NoKey
    /\ Render(certificates, removedCertificates)
    /\ UNCHANGED <<wgFixed, creating, peer, certificates, removedCertificates,
                   removing, ops, nextId, nextKey, deletedOk>>

(***************************************************************************)
(* getKeyPair, awaited by add.                                             *)
(***************************************************************************)
\* getKeyPair: where the key pair comes from, given whether randomPrivateKey
\* and getPublicKey succeed and whether the key endpoint answers
getKeyPair(client, server) ==
    IF client THEN "client"
    ELSE IF server THEN "server"
    ELSE "failed"

\* getKeyPair has returned a key pair: add calls getX25519PrivateKey, which
\* decodes the private key and awaits utils.sha512; no request is sent yet
KeyPairReady(i, src) ==
    /\ ops' = [ops EXCEPT ![i].phase = "x25519", ![i].key = nextKey + 1, ![i].src = src]
    /\ nextKey' = nextKey + 1
    /\ lastClick' = NoClick
    /\ lastNote' = "none"
    /\ UNCHANGED <<wgFixed, creating, peer, certificates,
                   removedCertificates, removing, certificateCache, memo, nextId,
                   deletedOk>>

\* an attempt ends without a certificate: finally { setCreating(false) }
AttemptEnds(i) ==
    /\ creating' = FALSE
    /\ ops' = RemoveAt(ops, i)
    /\ lastClick' = NoClick
    /\ lastNote' = "none"
    /\ Render(certificates, removedCertificates)
    /\ UNCHANGED <<wgFixed, peer, certificates, removedCertificates,
                   removing, memo, nextId, deletedOk>>

CreationFails(i) == AttemptEnds(i) /\ lastKey' = NoKey /\ UNCHANGED nextKey

\* await getKeyPair() in add settles. With a key pair add calls
\* getX25519PrivateKey and waits for utils.sha512, unless the private key
\* cannot be decoded: base64StringToUint8Array then throws before that await
\* and the attempt ends in finally in the same turn. Without a key pair the
\* attempt ends in finally.
KeyStep(client, server, decoded) ==
    \E i \in 1..Len(ops) :
        /\ ops[i].kind = "add" /\ ops[i].phase = "key"
        /\ lastKey' = [called |-> TRUE, client |-> client, server |-> server,
                       result |-> getKeyPair(client, server)]
        /\ IF getKeyPair(client, server) = "failed"
           THEN AttemptEnds(i) /\ UNCHANGED nextKey
           ELSE IF ~decoded
           THEN AttemptEnds(i) /\ nextKey' = nextKey + 1
           ELSE KeyPairReady(i, getKeyPair(client, server))

\* randomPrivateKey and getPublicKey succeed: the private key is the encoding
\* uint8ArrayToBase64String made, which decodes
KeyPairClient == KeyStep(TRUE, TRUE, TRUE)

\* randomPrivateKey or getPublicKey throws and the key endpoint answers, with
\* a private key that decodes or not
KeyPairFallback == \E decoded \in BOOLEAN : KeyStep(FALSE, TRUE, decoded)

\* randomPrivateKey or getPublicKey throws and the key endpoint fails too
KeyPairFail == KeyStep(FALSE, FALSE, FALSE)

\* await getX25519PrivateKey(privateKey) in add resolves (utils.sha512 has
\* resolved): queryCertificate is sent
X25519KeyDerived ==
    \E i \in 1..Len(ops) :
        /\ ops[i].kind = "add" /\ ops[i].phase = "x25519"
        /\ ops' = [ops EXCEPT ![i].phase = "cert"]
        /\ lastClick' = NoClick
        /\ lastNote' = "none"
        /\ lastKey' = NoKey
        /\ UNCHANGED <<wgFixed, creating, peer, certificates,
                       removedCertificates, removing, certificateCache, memo, nextId,
                       nextKey, deletedOk>>

\* await getX25519PrivateKey(privateKey) in add is rejected (utils.sha512 is
\* rejected): the attempt ends in finally, with no certificate request
X25519KeyFails ==
    \E i \in 1..Len(ops) :
        /\ ops[i].kind = "add" /\ ops[i].phase = "x25519"
        /\ CreationFails(i)

(***************************************************************************)
(* The answer to queryCertificate, for add and for the extend callback.    *)
(***************************************************************************)
AwaitsCertificate(i) ==
    i \in 1..Len(ops) /\ IsCreation(ops[i]) /\ ops[i].phase = "cert"

NewId == NumPreloaded + nextId + 1

KeyFingerprint(k) == NumPreloaded + k

\* add: getCertificateModel(certificate, peer, x25519PrivateKey), then
\* flushSync(setCertificates([...certificates, newCertificate])) and, in
\* finally, setCreating(false); each is followed by a render.
\* extend: getCertificateModel(renewedCertificate, peer, certificate.privateKey),
\* setCertificates([...certificates, newCertificate]), setCreating(false).
CertificateIssued(i, exp) ==
    LET o == ops[i]
        dto == [id |-> NewId,
                fp |-> IF o.kind = "add" THEN KeyFingerprint(o.key) ELSE o.cert.fp,
                exp |-> exp]
        newCertificate ==
            getCertificateModel(dto, IF o.kind = "add" THEN o.key ELSE o.cert.priv)
    IN /\ certificates' = Append(o.certs, newCertificate)
       /\ creating' = FALSE
       /\ nextId' = nextId + 1
       /\ ops' = RemoveAt(ops, i)
       /\ lastClick' = NoClick
       /\ lastNote' = (IF o.kind = "add" THEN "created" ELSE "extended")
       /\ lastKey' = NoKey
       /\ Render(Append(o.certs, newCertificate), removedCertificates)
       /\ UNCHANGED <<wgFixed, peer, removedCertificates, removing, memo,
                      nextKey, deletedOk>>

\* the expiration times the server can answer with: the section takes the
\* ExpirationTime of the answer as it is, for a new certificate and for an
\* extension alike
IssuedExp(o) == 1..MaxExp

CertificateResponse ==
    \E i \in 1..Len(ops) :
        /\ AwaitsCertificate(i)
        /\ \E exp \in IssuedExp(ops[i]) : CertificateIssued(i, exp)

CertificateRequestFails ==
    \E i \in 1..Len(ops) : AwaitsCertificate(i) /\ CreationFails(i)

(***************************************************************************)
(* getExtendCallback(certificate): not memoised, so its guard reads the    *)
(* creating of the current render.                                         *)
(***************************************************************************)
ExtendStarts == ~creating

ClickExtend ==
    \E c \in Listed(certificateCache) :
        /\ (ExtendStarts => CanStart)
        /\ lastClick' = [idle |-> Idle, started |-> ExtendStarts]
        /\ lastNote' = "none"
        /\ lastKey' = NoKey
        /\ creating' = (IF ExtendStarts THEN TRUE ELSE creating)
        /\ ops' = (IF ExtendStarts
                   THEN Append(ops, Op("extend", "cert", certificates, <<>>, {}, c))
                   ELSE ops)
        /\ Render(certificates, removedCertificates)
        /\ UNCHANGED <<wgFixed, peer, certificates, removedCertificates,
                       removing, memo, nextId, nextKey, deletedOk>>

(***************************************************************************)
(* askForRevocation(certificate): the handler keeps the removing,          *)
(* removedCertificates and certificates of the render it was created in.   *)
(***************************************************************************)
RevocationKey(c) == c.fp

\* the revoke button is rendered unless removing[key]
ClickRevoke ==
    \E c \in Listed(certificateCache) :
        /\ RevocationKey(c) \notin removing
        /\ Len(ops) < MaxOps
        /\ removing' = removing \cup {RevocationKey(c)}
        /\ ops' = Append(ops, Op("revoke", "confirm", certificates,
                                 removedCertificates, removing, c))
        /\ lastClick' = NoClick
        /\ lastNote' = "none"
        /\ lastKey' = NoKey
        /\ Render(certificates, removedCertificates)
        /\ UNCHANGED <<wgFixed, creating, peer, certificates,
                       removedCertificates, memo, nextId, nextKey, deletedOk>>

AwaitsConfirmation(i) ==
    i \in 1..Len(ops) /\ ops[i].kind = "revoke" /\ ops[i].phase = "confirm"

AwaitsDeletion(i) ==
    i \in 1..Len(ops) /\ ops[i].kind = "revoke" /\ ops[i].phase = "delete"

\* onConfirm of the modal: the delete request is sent
ConfirmRevocation ==
    \E i \in 1..Len(ops) :
        /\ AwaitsConfirmation(i)
        /\ ops' = [ops EXCEPT ![i].phase = "delete"]
        /\ lastClick' = NoClick
        /\ lastNote' = "none"
        /\ lastKey' = NoKey
        /\ UNCHANGED <<wgFixed, creating, peer, certificates,
                       removedCertificates, removing, certificateCache, memo,
                       nextId, nextKey, deletedOk>>

\* end(): setRemoving of the captured removing without the key
EndRemoving(o) == o.removingC \ {RevocationKey(o.cert)}

\* the attempt ends with nothing deleted
RevocationEnds(i, note) ==
    /\ removing' = EndRemoving(ops[i])
    /\ ops' = RemoveAt(ops, i)
    /\ lastClick' = NoClick
    /\ lastNote' = note
    /\ lastKey' = NoKey
    /\ Render(certificates, removedCertificates)
    /\ UNCHANGED <<wgFixed, creating, peer, certificates,
                   removedCertificates, memo, nextId, nextKey, deletedOk>>

\* onClose of the modal: the promise rejects, catch, finally end()
CloseRevocation ==
    \E i \in 1..Len(ops) : AwaitsConfirmation(i) /\ RevocationEnds(i, "none")

\* the delete request fails: catch, finally end()
DeleteFails == \E i \in 1..Len(ops) : AwaitsDeletion(i) /\ RevocationEnds(i, "none")

\* a Count of 0 handled like a deletion that happened
DeleteNotFoundDeletes ==
    \E i \in 1..Len(ops) :
        /\ AwaitsDeletion(i)
        /\ LET o == ops[i]
               removed == Append(o.removed, o.cert.fp)
               certs == SelectSeq(o.certs, LAMBDA c : c.id # o.cert.id)
           IN /\ removedCertificates' = removed
              /\ certificates' = certs
              /\ certificateCache' =
                    getCertificates([certificateCache EXCEPT ![o.cert.fp] = NoCert],
                                    certificatesResult, certs, removed)
              /\ removing' = EndRemoving(o)
        /\ ops' = RemoveAt(ops, i)
        /\ lastClick' = NoClick
        /\ lastNote' = "notFound"
        /\ lastKey' = NoKey
        /\ UNCHANGED <<wgFixed, creating, peer, memo, nextId, nextKey, deletedOk>>

\* Count is 0: warning notification, end(), return, finally end()
DeleteNotFound ==
    \E i \in 1..Len(ops) : AwaitsDeletion(i) /\ RevocationEnds(i, "notFound")

\* Count is not 0: delete certificateCache[fingerprint], then
\* setRemovedCertificates, setCertificates and end(), each followed by a render
DeleteDone ==
    \E i \in 1..Len(ops) :
        /\ AwaitsDeletion(i)
        /\ LET o == ops[i]
               cache1 == [certificateCache EXCEPT ![o.cert.fp] = NoCert]
               removed == Append(o.removed, o.cert.fp)
               cache2 == getCertificates(cache1, certificatesResult, certificates, removed)
               certs == SelectSeq(o.certs, LAMBDA c : c.id # o.cert.id)
           IN /\ removedCertificates' = removed
              /\ certificates' = certs
              /\ certificateCache' =
                    getCertificates(cache2, certificatesResult, certs, removed)
              /\ removing' = EndRemoving(o)
              /\ deletedOk' = deletedOk \cup {o.cert.fp}
        /\ ops' = RemoveAt(ops, i)
        /\ lastClick' = NoClick
        /\ lastNote' = "revoked"
        /\ lastKey' = NoKey
        /\ UNCHANGED <<wgFixed, creating, peer, memo, nextId, nextKey>>

(***************************************************************************)
(* useCertificates(limit): the list of the account's certificates is       *)
(* loaded again.  The server reports every certificate it holds, which are *)
(* those listed that were not deleted, with the expiration time it gave    *)
(* them; a DTO of the list has no id until getCertificateModel gives one.  *)
(***************************************************************************)
ServerDto(c) ==
    [id |-> IF c.fp <= NumPreloaded THEN c.fp ELSE 0 - c.fp, fp |-> c.fp, exp |-> c.exp]

RECURSIVE ServerList(_)
ServerList(fps) ==
    IF fps = {} THEN <<>>
    ELSE LET fp == CHOOSE f \in fps : \A g \in fps : f <= g
         IN << ServerDto(certificateCache[fp]) >> \o ServerList(fps \ {fp})

ReloadServerList ==
    /\ certificatesResult' =
          ServerList({fp \in Fingerprints :
                        certificateCache[fp] # NoCert /\ fp \notin deletedOk})
    /\ certificatesResult' # certificatesResult
    /\ certificateCache' = getCertificates(certificateCache, certificatesResult',
                                           certificates, removedCertificates)
    /\ lastClick' = NoClick
    /\ lastNote' = "none"
    /\ lastKey' = NoKey
    /\ UNCHANGED <<maxTier, creating, peer, certificates, removedCertificates,
                   removing, memo, ops, nextId, nextKey, deletedOk>>

WgNext ==
    \/ ReloadServerList
    \/ ClickCreate
    \/ ClickServer
    \/ SetPlatform
    \/ KeyPairClient
    \/ KeyPairFallback
    \/ KeyPairFail
    \/ X25519KeyDerived
    \/ X25519KeyFails
    \/ CertificateResponse
    \/ CertificateRequestFails
    \/ ClickExtend
    \/ ClickRevoke
    \/ ConfirmRevocation
    \/ CloseRevocation
    \/ DeleteFails
    \/ DeleteNotFound
    \/ DeleteDone

(***************************************************************************)
(* A session that starts with no certificate, in which the user only       *)
(* creates certificates and the list is reloaded.                          *)
(***************************************************************************)
SessionInit ==
    /\ WgInit
    /\ maxTier = 1
    /\ certificatesResult = <<>>

SessionRoom == Len(ops) < MaxOps /\ KeysStarted < MaxSessionKeys

SessionCreate ==
    \E s \in 1..Len(bestLogical(maxTier).Servers) :
        SelectLogical(bestLogical(maxTier), s, SessionRoom)

SessionServer ==
    \E i \in 1..Len(LogicalServers) : \E s \in 1..Len(LogicalServers[i].Servers) :
        SelectLogical(LogicalServers[i], s, SessionRoom)

SessionNext ==
    \/ SessionCreate
    \/ SessionServer
    \/ SetPlatform
    \/ KeyPairClient
    \/ KeyPairFallback
    \/ KeyPairFail
    \/ X25519KeyDerived
    \/ X25519KeyFails
    \/ CertificateResponse
    \/ CertificateRequestFails
    \/ ReloadServerList

(***************************************************************************)
(* The best server of the section, for any list of logical servers the     *)
(* server can report.  A logical server is named by its place in the list. *)
(***************************************************************************)
LoadedLogicals ==
    [Tier : 0..2, Score : 1..2, Features : {0, 1, 2, 4},
     Servers : {<<>>, << [ip |-> 1, x |-> FALSE] >>,
                << [ip |-> 1, x |-> FALSE], [ip |-> 2, x |-> TRUE] >>}]

Named(l, n) == [Name |-> n, Tier |-> l.Tier, Score |-> l.Score,
                Features |-> l.Features, Servers |-> l.Servers]

RECURSIVE LogicalLists(_)
LogicalLists(n) ==
    IF n = 0 THEN {<<>>}
    ELSE LogicalLists(n - 1) \cup
         {Append(a, Named(l, n)) : a \in {b \in LogicalLists(n - 1) : Len(b) = n - 1},
                                   l \in LoadedLogicals}

BestInit ==
    /\ blPc = "loading"
    /\ blLogicals = <<>>
    /\ blMaxTier \in 0..1
    /\ blBest = 0

\* the logical servers have loaded: the render computes bestLogical, whose
\* name it shows with the Create button
ServersLoaded ==
    /\ blPc = "loading"
    /\ \E result \in LogicalLists(MaxLogicals) :
          /\ blLogicals' = result
          /\ LET best == bestLogicalsOf(logicalsOf(result), blMaxTier)
             IN blBest' = (IF Len(best) > 0 THEN FirstByScore(best).Name ELSE 0)
    /\ blPc' = "loaded"
    /\ UNCHANGED blMaxTier

BestNext == ServersLoaded

(***************************************************************************)
(* SelectAll, the select-all checkbox of the mail toolbar.  An element is  *)
(* modelled by its ID, "undefined" when it has none, and by what isUnread  *)
(* and isStarred of ../../helpers/elements answer for it in the label.     *)
(***************************************************************************)
ElementIDs == {"undefined", "a", "b"}
Elements == [ID : ElementIDs, unread : BOOLEAN, starred : BOOLEAN]
SelectableIDs == {"a", "b", "c"}

RECURSIVE ListsOf(_, _)
ListsOf(S, n) ==
    IF n = 0 THEN {<<>>}
    ELSE ListsOf(S, n - 1) \cup
         {Append(a, x) : a \in {b \in ListsOf(S, n - 1) : Len(b) = n - 1}, x \in S}

NoCheck == [called |-> FALSE, IDs |-> <<>>, checked |-> FALSE, replace |-> FALSE,
            toggled |-> FALSE, off |-> FALSE]

\* const checked = elements.length === selectedIDs.length
checked == Len(elements) = Len(selectedIDs)

\* ({ ID = '' }) => ID
IdOf(element) == IF element.ID = "undefined" THEN "" ELSE element.ID

isUnread(element) == element.unread

isStarred(element) == element.starred

\* list.map(({ ID = '' }) => ID)
IDsOf(list) == [i \in 1..Len(list) |-> IdOf(list[i])]

\* handleAll(checked)(): the arguments given to onCheck
handleAll(value) ==
    [IDs |-> IDsOf(elements), checked |-> value, replace |-> TRUE]

\* handleRead(read)()
handleRead(read) ==
    [IDs |-> IDsOf(SelectSeq(elements, LAMBDA element : read = ~isUnread(element))),
     checked |-> TRUE, replace |-> TRUE]

\* handleStarred(starred)()
handleStarred(starred) ==
    [IDs |-> IDsOf(SelectSeq(elements, LAMBDA element : starred = isStarred(element))),
     checked |-> TRUE, replace |-> TRUE]

SelInit ==
    /\ elements \in ListsOf(Elements, MaxElements)
    /\ selectedIDs \in ListsOf(SelectableIDs, MaxElements)
    /\ disabled \in BOOLEAN
    /\ lastCheck = NoCheck

\* the user toggles the checkbox: onChange with target.checked, the opposite of
\* the checked prop
ToggleCheckbox ==
    /\ ~lastCheck.off
    /\ ~disabled
    /\ LET call == handleAll(~checked)
       IN lastCheck' = [called |-> TRUE, IDs |-> call.IDs, checked |-> call.checked,
                        replace |-> call.replace, toggled |-> TRUE, off |-> FALSE]
    /\ UNCHANGED <<elements, selectedIDs, disabled>>

\* "Select All" of the dropdown: handleAll(true)
ClickSelectAll ==
    /\ ~lastCheck.off
    /\ ~disabled
    /\ LET call == handleAll(TRUE)
       IN lastCheck' = [called |-> TRUE, IDs |-> call.IDs, checked |-> call.checked,
                        replace |-> call.replace, toggled |-> FALSE, off |-> FALSE]
    /\ UNCHANGED <<elements, selectedIDs, disabled>>

\* "All Read" and "All Unread" of the dropdown
ClickAllRead ==
    /\ ~lastCheck.off
    /\ ~disabled
    /\ \E read \in BOOLEAN :
          LET call == handleRead(read)
          IN lastCheck' = [called |-> TRUE, IDs |-> call.IDs, checked |-> call.checked,
                           replace |-> call.replace, toggled |-> FALSE, off |-> FALSE]
    /\ UNCHANGED <<elements, selectedIDs, disabled>>

\* "All Starred" and "All Unstarred" of the dropdown
ClickAllStarred ==
    /\ ~lastCheck.off
    /\ ~disabled
    /\ \E starred \in BOOLEAN :
          LET call == handleStarred(starred)
          IN lastCheck' = [called |-> TRUE, IDs |-> call.IDs, checked |-> call.checked,
                           replace |-> call.replace, toggled |-> FALSE, off |-> FALSE]
    /\ UNCHANGED <<elements, selectedIDs, disabled>>

\* the parent renders SelectAll with another selection
SelectionChanges ==
    /\ ~lastCheck.off
    /\ \E ids \in ListsOf(SelectableIDs, MaxElements) :
          /\ ids # selectedIDs
          /\ selectedIDs' = ids
    /\ lastCheck' = NoCheck
    /\ UNCHANGED <<elements, disabled>>

SelNext ==
    \/ ToggleCheckbox
    \/ ClickSelectAll
    \/ ClickAllRead
    \/ ClickAllStarred
    \/ SelectionChanges

(***************************************************************************)
(* getScopeFromProvider of the Easy Switch OAuth modal.  The scope lists   *)
(* are those of @proton/activation/constants.  An entry of the array being *)
(* built is a string, a list of strings, or a falsy value.                 *)
(***************************************************************************)
MAIL == "Mail"
CALENDAR == "Calendar"
CONTACTS == "Contacts"
ImportTypes == {MAIL, CALENDAR, CONTACTS}
Providers == {"GOOGLE", "OUTLOOK", "YAHOO"}

G_OAUTH_SCOPE_DEFAULT == <<"email", "openid">>
G_OAUTH_SCOPE_MAIL_READONLY == <<"https://www.googleapis.com/auth/gmail.readonly">>
G_OAUTH_SCOPE_CALENDAR == <<"https://www.googleapis.com/auth/calendar.readonly">>
G_OAUTH_SCOPE_CONTACTS == <<"https://www.googleapis.com/auth/contacts.readonly">>
O_OAUTH_SCOPE_DEFAULT == <<"email", "openid", "User.Read", "offline_access">>
O_OAUTH_SCOPE_MAIL == <<"Mail.read">>
O_OAUTH_SCOPE_CALENDAR == <<"Calendars.read">>
O_OAUTH_SCOPE_CONTACTS == <<"Contacts.read">>

Str(x) == [kind |-> "string", list |-> <<x>>]
Arr(l) == [kind |-> "array", list |-> l]
Falsy == [kind |-> "falsy", list |-> <<>>]

\* ...list: the strings of a list as entries
Spread(l) == [i \in 1..Len(l) |-> Str(l[i])]

\* checkedTypes[type] && list; a missing or false entry is falsy
And(value, l) == IF value = "true" THEN Arr(l) ELSE Falsy

isTruthy(entry) ==
    /\ entry.kind # "falsy"
    /\ entry.kind = "string" => entry.list # <<"">>

\* .flat(1): a string stays, a list is replaced by its elements
RECURSIVE Flat(_)
Flat(entries) ==
    IF entries = <<>> THEN <<>> ELSE Head(entries).list \o Flat(Tail(entries))

\* the calendar scope added whether checked or not
getScopeFromProviderAlwaysCalendar(p, types) ==
    IF p = "GOOGLE"
    THEN Flat(SelectSeq(Spread(G_OAUTH_SCOPE_DEFAULT)
                        \o << And(types[MAIL], G_OAUTH_SCOPE_MAIL_READONLY),
                              Arr(G_OAUTH_SCOPE_CALENDAR),
                              And(types[CONTACTS], G_OAUTH_SCOPE_CONTACTS) >>, isTruthy))
    ELSE IF p = "OUTLOOK"
    THEN Flat(SelectSeq(Spread(O_OAUTH_SCOPE_DEFAULT)
                        \o << And(types[MAIL], O_OAUTH_SCOPE_MAIL),
                              Arr(O_OAUTH_SCOPE_CALENDAR),
                              And(types[CONTACTS], O_OAUTH_SCOPE_CONTACTS) >>, isTruthy))
    ELSE <<>>

getScopeFromProvider(p, types) ==
    IF p = "GOOGLE"
    THEN Flat(SelectSeq(Spread(G_OAUTH_SCOPE_DEFAULT)
                        \o << And(types[MAIL], G_OAUTH_SCOPE_MAIL_READONLY),
                              And(types[CALENDAR], G_OAUTH_SCOPE_CALENDAR),
                              And(types[CONTACTS], G_OAUTH_SCOPE_CONTACTS) >>, isTruthy))
    ELSE IF p = "OUTLOOK"
    THEN Flat(SelectSeq(Spread(O_OAUTH_SCOPE_DEFAULT)
                        \o << And(types[MAIL], O_OAUTH_SCOPE_MAIL),
                              And(types[CALENDAR], O_OAUTH_SCOPE_CALENDAR),
                              And(types[CONTACTS], O_OAUTH_SCOPE_CONTACTS) >>, isTruthy))
    ELSE <<>>

ScopeInit ==
    /\ provider \in Providers
    /\ checkedTypes \in [ImportTypes -> {"true", "false", "undefined"}]
    /\ scopes = <<>>
    /\ scopePc = "idle"

AskScopes ==
    /\ scopePc = "idle"
    /\ scopes' = getScopeFromProvider(provider, checkedTypes)
    /\ scopePc' = "done"
    /\ UNCHANGED <<provider, checkedTypes>>

ScopeNext == AskScopes

(***************************************************************************)
(* CreateEventCalendarSelect, the calendar select of the event modal.  The *)
(* model is reduced to the fields handleChangeCalendar reads or writes; a  *)
(* notification of the API is its trigger, and a member without Email has  *)
(* the empty Email.                                                        *)
(***************************************************************************)
CalendarIDs == {"c1", "c2"}

\* what getAddresses resolves to
Addresses == << [ID |-> "a1", Email |-> "me@x"], [ID |-> "a2", Email |-> "alias@x"] >>

\* what getCalendarBootstrap can resolve to
Bootstraps ==
    [Members : {<<>>, << [Email |-> ""] >>, << [Email |-> "alias@x"] >>,
                << [Email |-> "other@x"] >>,
                << [Email |-> "other@x"], [Email |-> "me@x"] >>},
     DefaultEventDuration : {30, 60},
     DefaultPartDayNotifications : {<<>>, <<15>>},
     DefaultFullDayNotifications : {<<>>, <<900>>}]

notificationsToModel(notifications, isAllDay) ==
    [i \in 1..Len(notifications) |-> [trigger |-> notifications[i], isAllDay |-> isAllDay]]

\* a notification the user has set
Customised(isAllDay) == << [trigger |-> 5, isAllDay |-> isAllDay] >>

NoChange == [stage |-> "idle"]
NotEnded == [ended |-> FALSE]

\* const [Member = {}] = Members
FirstMember(Members) == IF Len(Members) = 0 THEN [Email |-> ""] ELSE Members[1]

\* addresses.find(({ Email }) => Email === memberEmail): its place, 0 when none
FindAddress(memberEmail) ==
    LET places == {i \in 1..Len(Addresses) : Addresses[i].Email = memberEmail}
    IN IF places = {} THEN 0 ELSE CHOOSE i \in places : \A j \in places : i <= j

CalInit ==
    /\ frozen \in BOOLEAN
    /\ \E part \in BOOLEAN, full \in BOOLEAN :
          model = [calendar |-> "c1",
                   addressID |-> "a1",
                   defaultEventDuration |-> 30,
                   hasPartDayDefaultNotifications |-> part,
                   partDayNotifications |->
                       IF part THEN notificationsToModel(<<15>>, FALSE) ELSE Customised(FALSE),
                   hasFullDayDefaultNotifications |-> full,
                   fullDayNotifications |->
                       IF full THEN notificationsToModel(<<900>>, TRUE) ELSE Customised(TRUE)]
    /\ calendarChange = NoChange
    /\ lastChange = NotEnded

\* onChange of the select: handleChangeCalendar(newId) starts, with the model
\* of this render, and awaits getCalendarBootstrap
ChangeCalendar ==
    /\ ~frozen
    /\ calendarChange.stage = "idle"
    /\ \E newId \in CalendarIDs :
          calendarChange' = [stage |-> "bootstrap", newId |-> newId, model |-> model]
    /\ lastChange' = NotEnded
    /\ UNCHANGED <<model, frozen>>

\* getCalendarBootstrap resolves; getAddresses is awaited
BootstrapAnswers ==
    /\ calendarChange.stage = "bootstrap"
    /\ \E b \in Bootstraps :
          calendarChange' = [stage |-> "addresses", newId |-> calendarChange.newId,
                             model |-> calendarChange.model, bootstrap |-> b]
    /\ lastChange' = NotEnded
    /\ UNCHANGED <<model, frozen>>

\* getCalendarBootstrap or getAddresses rejects
RequestFails ==
    /\ calendarChange.stage \in {"bootstrap", "addresses"}
    /\ calendarChange' = NoChange
    /\ lastChange' = [ended |-> TRUE, thrown |-> "request", setModel |-> FALSE,
                      before |-> model, bootstrap |-> <<>>]
    /\ UNCHANGED <<model, frozen>>

\* handleChangeCalendar after its two awaits: what it throws, whether it calls
\* setModel and with which value
handleChangeCalendar(c) ==
    LET b == c.bootstrap
        Member == FirstMember(b.Members)
        memberEmail == Member.Email
        address == FindAddress(memberEmail)
        newDefaultPartDayNotifications ==
            notificationsToModel(b.DefaultPartDayNotifications, FALSE)
        newDefaultFullDayNotifications ==
            notificationsToModel(b.DefaultFullDayNotifications, TRUE)
    IN IF memberEmail = "" \/ address = 0
       THEN [thrown |-> "Address does not exist", setModel |-> FALSE, value |-> c.model]
       ELSE [thrown |-> "", setModel |-> TRUE,
             value |-> [c.model EXCEPT
                 !.calendar = c.newId,
                 !.addressID = Addresses[address].ID,
                 !.defaultEventDuration = b.DefaultEventDuration,
                 !.partDayNotifications =
                     IF c.model.hasPartDayDefaultNotifications
                     THEN newDefaultPartDayNotifications
                     ELSE c.model.partDayNotifications,
                 !.fullDayNotifications =
                     IF c.model.hasFullDayDefaultNotifications
                     THEN newDefaultFullDayNotifications
                     ELSE c.model.fullDayNotifications]]

\* getAddresses resolves: the rest of handleChangeCalendar runs
AddressesAnswer ==
    /\ calendarChange.stage = "addresses"
    /\ LET r == handleChangeCalendar(calendarChange)
       IN /\ model' = (IF r.setModel THEN r.value ELSE model)
          /\ lastChange' = [ended |-> TRUE, thrown |-> r.thrown, setModel |-> r.setModel,
                            before |-> model, bootstrap |-> calendarChange.bootstrap]
    /\ calendarChange' = NoChange
    /\ UNCHANGED frozen

\* the event form renders the select with a model whose notifications the user
\* has customised
CustomiseNotifications ==
    /\ \E isAllDay \in BOOLEAN :
          /\ model' = (IF isAllDay
                       THEN [model EXCEPT !.hasFullDayDefaultNotifications = FALSE,
                                          !.fullDayNotifications = Customised(TRUE)]
                       ELSE [model EXCEPT !.hasPartDayDefaultNotifications = FALSE,
                                          !.partDayNotifications = Customised(FALSE)])
          /\ model' # model
    /\ lastChange' = NotEnded
    /\ UNCHANGED <<frozen, calendarChange>>

CalNext ==
    \/ ChangeCalendar
    \/ BootstrapAnswers
    \/ RequestFails
    \/ AddressesAnswer
    \/ CustomiseNotifications

(***************************************************************************)
(* Curve25519 scalar sampling and X25519 key derivation.                   *)
(*                                                                         *)
(* A Uint8Array is a sequence of bytes (index 0 of the code is index 1).   *)
(* A BigInt is held as its little-endian base-256 digits, which is what    *)
(* bytesToNumberLE builds: value += BigInt(uint8a[i]) << (8 * i).          *)
(***************************************************************************)
KeyLength == 32

Iterations == 1024

Bytes == 0..255

Filled(b) == [i \in 1..KeyLength |-> b]

bytesToNumberLE(uint8a) == [i \in 1..Len(uint8a) |-> uint8a[i]]

\* a < b for two BigInts of KeyLength digits
BigLess(a, b) ==
    \E i \in 1..KeyLength :
        /\ a[i] < b[i]
        /\ \A j \in (i + 1)..KeyLength : a[j] = b[j]

BigOne == [Filled(0) EXCEPT ![1] = 1]

\* CURVE.n, the order of the base point:
\* 2^252 + 27742317777372353535851937790883648493
CurveN ==
    << 237, 211, 245, 92, 26, 99, 18, 88, 214, 156, 247, 162, 222, 249, 222, 20,
       0, 0, 0, 0, 0, 0, 0, 0, 0, 0, 0, 0, 0, 0, 0, 16 >>

\* the range test with its lower edge let in
IsValidScalarFromOne(b32) ==
    LET num == bytesToNumberLE(b32)
    IN ~BigLess(num, BigOne) /\ BigLess(num, CurveN)

\* num > BigInt(1) && num < CURVE.n
IsValidScalar(b32) ==
    LET num == bytesToNumberLE(b32)
    IN BigLess(BigOne, num) /\ BigLess(num, CurveN)

\* what getRandomValues can return, around every edge of the accepted range
ValidSamples ==
    { [Filled(0) EXCEPT ![1] = 2],           \* 2
      Filled(7),
      [Filled(0) EXCEPT ![KeyLength] = 16],  \* 2^252
      [CurveN EXCEPT ![1] = 236] }           \* n - 1

InvalidSamples ==
    { Filled(0),                             \* 0
      BigOne,                                \* 1
      CurveN,                                \* n
      [CurveN EXCEPT ![1] = 238],            \* n + 1
      [CurveN EXCEPT ![17] = 1],             \* n + 2^128
      [Filled(0) EXCEPT ![KeyLength] = 17],
      Filled(255) }

Samples == ValidSamples \cup InvalidSamples

(***************************************************************************)
(* Base64, as uint8ArrayToBase64String and base64StringToUint8Array: a     *)
(* string is the sequence of its characters' values, 0..63, and Pad for =. *)
(***************************************************************************)
Pad == 64

RECURSIVE uint8ArrayToBase64String(_)
uint8ArrayToBase64String(bytes) ==
    IF Len(bytes) = 0 THEN <<>>
    ELSE IF Len(bytes) = 1
    THEN << bytes[1] \div 4, (bytes[1] % 4) * 16, Pad, Pad >>
    ELSE IF Len(bytes) = 2
    THEN << bytes[1] \div 4, (bytes[1] % 4) * 16 + bytes[2] \div 16,
            (bytes[2] % 16) * 4, Pad >>
    ELSE << bytes[1] \div 4, (bytes[1] % 4) * 16 + bytes[2] \div 16,
            (bytes[2] % 16) * 4 + bytes[3] \div 64, bytes[3] % 64 >>
         \o uint8ArrayToBase64String(SubSeq(bytes, 4, Len(bytes)))

RECURSIVE base64StringToUint8Array(_)
base64StringToUint8Array(str) ==
    IF Len(str) < 4 THEN <<>>
    ELSE LET first == str[1] * 4 + str[2] \div 16
             second == (str[2] % 16) * 16 + str[3] \div 4
             third == (str[3] % 4) * 64 + str[4]
         IN IF str[3] = Pad THEN << first >>
            ELSE IF str[4] = Pad THEN << first, second >>
            ELSE << first, second, third >>
                 \o base64StringToUint8Array(SubSeq(str, 5, Len(str)))

(***************************************************************************)
(* Bit operations on bytes.                                                *)
(***************************************************************************)
RECURSIVE BitAnd(_, _)
BitAnd(a, b) ==
    IF a = 0 \/ b = 0 THEN 0
    ELSE 2 * BitAnd(a \div 2, b \div 2) + (IF a % 2 = 1 /\ b % 2 = 1 THEN 1 ELSE 0)

RECURSIVE BitOr(_, _)
BitOr(a, b) ==
    IF a = 0 THEN b
    ELSE IF b = 0 THEN a
    ELSE 2 * BitOr(a \div 2, b \div 2) + (IF a % 2 = 1 \/ b % 2 = 1 THEN 1 ELSE 0)

\* the clamp without the clearing of the top bit of the last byte
ClampKeepsTopBit(sha512) ==
    [sha512 EXCEPT ![1] = BitAnd(@, 248), ![KeyLength] = BitOr(@, 64)]

\* sha512[0] &= 0xf8; sha512[31] &= 0x7f; sha512[31] |= 0x40
Clamp(sha512) ==
    [sha512 EXCEPT ![1] = BitAnd(@, 248), ![KeyLength] = BitOr(BitAnd(@, 127), 64)]

\* getX25519PrivateKey, given the digest utils.sha512 returns for the decoded key
getX25519PrivateKey(digest) ==
    uint8ArrayToBase64String(Clamp(SubSeq(digest, 1, KeyLength)))

(***************************************************************************)
(* randomPrivateKey, one action per evaluation of the loop condition.      *)
(***************************************************************************)
KeysInit ==
    /\ curve \in BOOLEAN
    /\ rpkPc = "start"
    /\ rpkI = 0
    /\ rpkDraws = 0
    /\ rpkMissed = FALSE
    /\ rpkResult = <<>>
    /\ xHashed = <<>>
    /\ xDigest = <<>>
    /\ xResult = <<>>

\* if (!CURVE) throw; let i = 1024
RpkStart ==
    /\ rpkPc = "start"
    /\ rpkPc' = (IF curve THEN "loop" ELSE "thrown")
    /\ rpkI' = (IF curve THEN Iterations ELSE rpkI)
    /\ UNCHANGED <<curve, rpkDraws, rpkMissed, rpkResult, xHashed, xDigest, xResult>>

\* while (i--) with i not 0: one sample is drawn and tested
RpkDraw ==
    /\ rpkPc = "loop"
    /\ rpkI # 0
    /\ rpkI' = rpkI - 1
    /\ rpkDraws' = rpkDraws + 1
    /\ \E b32 \in Samples :
          IF IsValidScalar(b32)
          THEN /\ rpkPc' = "returned"
               /\ rpkResult' = b32
               /\ UNCHANGED rpkMissed
          ELSE /\ rpkMissed' = (rpkMissed \/ b32 \in ValidSamples)
               /\ UNCHANGED <<rpkPc, rpkResult>>
    /\ UNCHANGED <<curve, xHashed, xDigest, xResult>>

\* while (i--) with i 0: the loop ends and the function throws
RpkExhausted ==
    /\ rpkPc = "loop"
    /\ rpkI = 0
    /\ rpkI' = rpkI - 1
    /\ rpkPc' = "thrown"
    /\ UNCHANGED <<curve, rpkDraws, rpkMissed, rpkResult, xHashed, xDigest, xResult>>

(***************************************************************************)
(* getX25519PrivateKey applied to the base64 string of a private key.      *)
(* utils.sha512 is a library function: its digest is any 64 bytes.         *)
(***************************************************************************)
EdgeBytes == {0, 1, 7, 8, 63, 64, 127, 128, 191, 192, 248, 255}

DigestOf(first, last, fill) ==
    [i \in 1..(2 * KeyLength) |->
        IF i = 1 THEN first
        ELSE IF i = KeyLength THEN last
        ELSE (fill + i) % 256]

Digests ==
    {DigestOf(a, b, f) : a \in Bytes, b \in EdgeBytes, f \in {0, 165}}
    \cup {DigestOf(a, b, f) : a \in EdgeBytes, b \in Bytes, f \in {0, 165}}

DeriveX25519 ==
    /\ rpkPc = "start"
    /\ rpkPc' = "derived"
    /\ \E key \in ValidSamples, digest \in Digests :
          /\ xHashed' = base64StringToUint8Array(uint8ArrayToBase64String(key))
          /\ xDigest' = digest
          /\ xResult' = getX25519PrivateKey(digest)
    /\ UNCHANGED <<curve, rpkI, rpkDraws, rpkMissed, rpkResult>>

KeysNext ==
    \/ RpkStart
    \/ RpkDraw
    \/ RpkExhausted
    \/ DeriveX25519

(***************************************************************************)
(* The polyfill of CSS logical properties.                                 *)
(*                                                                         *)
(* A URL is the sequence of the pieces of its text.  "o" is the text of    *)
(* window.location.origin, "x" that of another origin, ".evil" a piece of  *)
(* host name or a port that follows the origin's text, and the other       *)
(* pieces make the path.  No piece but ".css" holds the text .css, so the  *)
(* occurrences of .css in the text are the ".css" pieces.                  *)
(***************************************************************************)
ending == << ".ltr", ".css" >>

Hosts == { << "o" >>, << "x" >>, << "o", ".evil" >> }

Paths ==
    { << "/", "a", ".css" >>,
      << "/", "a", ".ltr", ".css" >>,
      << "/", "a", ".css", "/", "b", ".css" >>,
      << "/", "a", ".css", ".map" >>,
      << "/", "a", ".js" >> }

Urls == {h \o q : h \in Hosts, q \in Paths}

StartsWith(str, prefix) ==
    Len(str) >= Len(prefix) /\ SubSeq(str, 1, Len(prefix)) = prefix

EndsWith(str, suffix) ==
    Len(str) >= Len(suffix)
    /\ SubSeq(str, Len(str) - Len(suffix) + 1, Len(str)) = suffix

\* getIsNonEnding: the URL starts with the origin's text, ends with .css and
\* does not end with .ltr.css
getIsNonEnding(src) ==
    /\ StartsWith(src, << "o" >>)
    /\ EndsWith(src, << ".css" >>)
    /\ ~EndsWith(src, ending)

\* href.replace(/\.css/, ending): the first occurrence of .css is replaced
ReplaceFirstCss(href) ==
    IF \E i \in 1..Len(href) : href[i] = ".css"
    THEN LET i == CHOOSE k \in 1..Len(href) :
                      href[k] = ".css" /\ \A j \in 1..(k - 1) : href[j] # ".css"
         IN SubSeq(href, 1, i - 1) \o ending \o SubSeq(href, i + 1, Len(href))
    ELSE href

mutateLinkElement(el) == [el EXCEPT !.href = ReplaceFirstCss(el.href)]

\* getIsNonEndingLinkElement
getIsNonEndingLinkElement(node) ==
    node.tag = "LINK" /\ node.rel = "stylesheet" /\ getIsNonEnding(node.href)

\* queryLocalLinkElements: the positions in the document of the elements that
\* match link[rel=stylesheet] and pass getIsNonEnding
queryLocalLinkElements(document) ==
    { i \in 1..Len(document) :
        /\ document[i].tag = "LINK"
        /\ document[i].rel = "stylesheet"
        /\ getIsNonEnding(document[i].href) }

\* a node: first is the href it was given, initial whether it was in the
\* document when initLogicalProperties was called
Nodes(places, initial) ==
    { [tag |-> t, rel |-> r, href |-> u, first |-> u, place |-> w, initial |-> initial,
       queued |-> FALSE] :
        t \in {"LINK", "A"}, r \in {"stylesheet", "icon"}, u \in Urls, w \in places }

LpInit ==
    /\ supports \in BOOLEAN
    /\ lpPc = "before"
    /\ observer = FALSE
    /\ \/ doc = <<>>
       \/ \E n \in Nodes({"head", "body"}, TRUE) : doc = << n >>

\* initLogicalProperties
initLogicalProperties ==
    /\ lpPc = "before"
    /\ lpPc' = "after"
    /\ IF supports
       THEN UNCHANGED <<observer, doc>>
       ELSE /\ doc' = [i \in 1..Len(doc) |->
                          IF i \in queryLocalLinkElements(doc)
                          THEN mutateLinkElement(doc[i]) ELSE doc[i]]
            /\ observer' = TRUE
    /\ UNCHANGED supports

\* A script adds a node to the document.  The observer watches document.head
\* and its subtree: a node appended to document.head ("head") or to an
\* element already under it ("within") is queued as an added node of a
\* mutation record; a link that is inside the element being inserted
\* ("nested") is not, its container is.  The node is in the document, as it
\* was given, until the callback of the observer runs.
AddNode ==
    /\ Len(doc) < MaxNodes
    /\ lpPc = "after"
    /\ \E n \in Nodes({"head", "within", "nested", "body"}, FALSE) :
          doc' = Append(doc, [n EXCEPT !.queued = observer /\ n.place \in {"head", "within"}])
    /\ UNCHANGED <<supports, lpPc, observer>>

\* The callback of the observer, a microtask that runs once the script that
\* inserted the nodes has returned, with all the records queued so far
ObserverCallback ==
    /\ \E i \in 1..Len(doc) : doc[i].queued
    /\ doc' = [i \in 1..Len(doc) |->
                 IF doc[i].queued
                 THEN [(IF getIsNonEndingLinkElement(doc[i])
                        THEN mutateLinkElement(doc[i]) ELSE doc[i])
                       EXCEPT !.queued = FALSE]
                 ELSE doc[i]]
    /\ UNCHANGED <<supports, lpPc, observer>>

LpNext ==
    \/ initLogicalProperties
    \/ AddNode
    \/ ObserverCallback

(***************************************************************************)
(* AccountStep, the first step of the signup form.                         *)
(*                                                                         *)
(* A field's value is the sequence of its characters, with one character   *)
(* standing for a run of text without special meaning: "u" a name, "x" the *)
(* name of an outside mail domain, "p" that of a Proton domain, "w" a      *)
(* password shorter than the minimum and "W" one that is long enough.      *)
(***************************************************************************)
SignupTypes == {"Username", "Email", "VPN"}

TypedUsernames == { <<>>, << "u" >>, << "u", "@" >>, << "@", "u", "@", "u" >> }

TypedEmails == { <<>>, << "u" >>, << "u", "@", "x" >> }

TypedPasswords == { <<>>, << "w" >>, << "W" >> }

TypedRecoveryEmails == { <<>>, << "u" >>, << "u", "@", "x" >>, << "u", "@", "p" >> }

\* the validators of shared/lib/helpers/formValidators: "" when the value passes
requiredValidator(value) == IF value = <<>> THEN "required" ELSE ""

emailValidator(value) ==
    IF Len(value) = 3 /\ value[2] = "@" /\ value[1] # "@" /\ value[3] # "@"
    THEN "" ELSE "invalid"

passwordLengthValidator(value) == IF value = << "W" >> THEN "" ELSE "short"

confirmPasswordValidator(a, b) == IF a = b THEN "" ELSE "mismatch"

\* hasProtonDomain
hasProtonDomain(value) == Len(value) > 0 /\ value[Len(value)] = "p"

\* useFormErrors' validator: the first error of the list, "" when there is none
validator(validations) ==
    IF \E i \in 1..Len(validations) : validations[i] # ""
    THEN validations[CHOOSE i \in 1..Len(validations) :
                        validations[i] # "" /\ \A j \in 1..(i - 1) : validations[j] = ""]
    ELSE ""

\* the errors of the fields the render shows
FieldErrors(type, u, e, pw, cpw, rec) ==
    { validator(IF type \in {"Username", "VPN"}
                THEN << requiredValidator(u) >>
                ELSE << requiredValidator(e), emailValidator(e) >>),
      validator(<< requiredValidator(pw), passwordLengthValidator(pw) >>),
      validator(<< requiredValidator(pw), passwordLengthValidator(cpw),
                   confirmPasswordValidator(cpw, pw) >>) }
    \cup (IF type = "VPN"
          THEN { validator(<< requiredValidator(rec), emailValidator(rec) >>) }
          ELSE {})

\* useFormErrors' onFormSubmit: whether the render reported no error
onFormSubmit == FieldErrors(signupType, username, email, password,
                            confirmPassword, recoveryEmail) \subseteq {""}

NoSubmit == [attempt |-> FALSE, loading |-> FALSE, valid |-> FALSE, started |-> FALSE,
             modal |-> FALSE]

NoTyped == [changed |-> FALSE, value |-> <<>>, stored |-> <<>>, switched |-> FALSE]

SuInit ==
    /\ lastTyped = NoTyped
    /\ defaultSignupType \in SignupTypes
    /\ hasExternalSignup \in BOOLEAN
    /\ signupType = defaultSignupType
    /\ username = <<>>
    /\ email = <<>>
    /\ password = <<>>
    /\ confirmPassword = <<>>
    /\ recoveryEmail = <<>>
    /\ loading = FALSE
    /\ counterRef = 0
    /\ loginModal = FALSE
    /\ runs = <<>>
    /\ lastSubmit = NoSubmit

suProps == <<defaultSignupType, hasExternalSignup>>

\* value.replaceAll('@', '')
Sanitize(value) == SelectSeq(value, LAMBDA ch : ch # "@")

\* onValue of the username without the setUsername that follows flushSync
onValueUsernameFlushed(value) ==
    LET sanitizedValue == Sanitize(value)
    IN IF sanitizedValue # value
       THEN << sanitizedValue, Append(sanitizedValue, " ") >>
       ELSE << sanitizedValue >>

\* onValue of the username: the values it gives to setUsername, in order
onValueUsername(value) ==
    LET sanitizedValue == Sanitize(value)
    IN IF sanitizedValue # value
       THEN << sanitizedValue, Append(sanitizedValue, " "), sanitizedValue >>
       ELSE << sanitizedValue >>

\* onValue of the first field: the username, sanitized, or the email
OnValueFirstField ==
    /\ ~loading
    /\ \/ /\ signupType \in {"Username", "VPN"}
          /\ \E value \in TypedUsernames :
                LET stored == onValueUsername(value)
                IN /\ username' = stored[Len(stored)]
                   /\ lastTyped' = [NoTyped EXCEPT !.changed = TRUE, !.value = value,
                                                    !.stored = stored]
          /\ UNCHANGED email
       \/ /\ signupType = "Email"
          /\ \E value \in TypedEmails : email' = value
          /\ lastTyped' = NoTyped
          /\ UNCHANGED username
    /\ lastSubmit' = NoSubmit
    /\ UNCHANGED <<suProps, signupType, password, confirmPassword, recoveryEmail,
                   loading, counterRef, loginModal, runs>>

OnValuePassword ==
    /\ ~loading
    /\ \E value \in TypedPasswords : password' = value
    /\ lastSubmit' = NoSubmit
    /\ lastTyped' = NoTyped
    /\ UNCHANGED <<suProps, signupType, username, email, confirmPassword,
                   recoveryEmail, loading, counterRef, loginModal, runs>>

OnValueConfirmPassword ==
    /\ ~loading
    /\ \E value \in TypedPasswords : confirmPassword' = value
    /\ lastSubmit' = NoSubmit
    /\ lastTyped' = NoTyped
    /\ UNCHANGED <<suProps, signupType, username, email, password,
                   recoveryEmail, loading, counterRef, loginModal, runs>>

OnValueRecoveryEmail ==
    /\ ~loading
    /\ signupType = "VPN"
    /\ \E value \in TypedRecoveryEmails : recoveryEmail' = value
    /\ lastSubmit' = NoSubmit
    /\ lastTyped' = NoTyped
    /\ UNCHANGED <<suProps, signupType, username, email, password,
                   confirmPassword, loading, counterRef, loginModal, runs>>

\* the button that switches between an address to create and an existing one
SwitchSignupType ==
    /\ hasExternalSignup
    /\ signupType' = (IF signupType \in {"Username", "VPN"}
                      THEN "Email" ELSE defaultSignupType)
    /\ username' = <<>>
    /\ email' = <<>>
    /\ lastSubmit' = NoSubmit
    /\ lastTyped' = [NoTyped EXCEPT !.switched = TRUE]
    /\ UNCHANGED <<suProps, password, confirmPassword, recoveryEmail, loading,
                   counterRef, loginModal, runs>>

\* handleSubmit's first guard: it goes on only when no submission is loading
\* and the form is valid
PassesGuardIgnoringLoading(ld, valid) == valid

PassesGuard(ld, valid) == ~(ld \/ ~valid)

\* handleSubmit's second guard with the signup type left out
DivertedAnyType(type, recovery) == hasProtonDomain(recovery)

\* handleSubmit's second guard: the submission goes to the sign-in prompt
Diverted(type, recovery) == type = "VPN" /\ hasProtonDomain(recovery)

\* the form that run() reads from its render
Form == [username |-> username, email |-> email, password |-> password,
         signupType |-> signupType, recoveryEmail |-> recoveryEmail]

\* handleSubmit, called by the form's onSubmit and by Enter in the first field.
\* withLoading counts the promise and sets loading; the render that follows
\* the event hands the next event a handler that reads the new flag.
handleSubmit ==
    /\ counterRef < MaxSubmits
    /\ LET valid == onFormSubmit
           passes == PassesGuard(loading, valid)
           diverted == Diverted(signupType, recoveryEmail)
       IN /\ lastSubmit' = [attempt |-> TRUE, loading |-> loading, valid |-> valid,
                            started |-> passes /\ ~diverted,
                            modal |-> passes /\ diverted]
          /\ IF ~passes
             THEN UNCHANGED <<loginModal, loading, counterRef, runs>>
             ELSE IF diverted
             THEN /\ loginModal' = TRUE
                  /\ UNCHANGED <<loading, counterRef, runs>>
             ELSE /\ counterRef' = counterRef + 1
                  /\ loading' = TRUE
                  /\ runs' = Append(runs, [n |-> counterRef + 1, phase |-> "getChallenge",
                                           form |-> Form])
                  /\ UNCHANGED loginModal
    /\ lastTyped' = NoTyped
    /\ UNCHANGED <<suProps, signupType, username, email, password, confirmPassword,
                   recoveryEmail>>

\* the sign-in prompt is closed
CloseLoginModal ==
    /\ loginModal
    /\ loginModal' = FALSE
    /\ lastSubmit' = NoSubmit
    /\ lastTyped' = NoTyped
    /\ UNCHANGED <<suProps, signupType, username, email, password, confirmPassword,
                   recoveryEmail, loading, counterRef, runs>>

\* run(): getChallenge has answered and onSubmit is called with the form
CallOnSubmit ==
    /\ \E i \in 1..Len(runs) :
          /\ runs[i].phase = "getChallenge"
          /\ runs' = [runs EXCEPT ![i].phase = "onSubmit"]
    /\ lastSubmit' = NoSubmit
    /\ lastTyped' = NoTyped
    /\ UNCHANGED <<suProps, signupType, username, email, password, confirmPassword,
                   recoveryEmail, loading, counterRef, loginModal>>

\* the promise of run() settles (getChallenge rejected, or onSubmit resolved or
\* rejected): withLoading clears the flag if the promise is the last it was given
RunSettles ==
    /\ \E i \in 1..Len(runs) :
          /\ runs' = RemoveAt(runs, i)
          /\ loading' = (IF runs[i].n = counterRef THEN FALSE ELSE loading)
    /\ lastSubmit' = NoSubmit
    /\ lastTyped' = NoTyped
    /\ UNCHANGED <<suProps, signupType, username, email, password, confirmPassword,
                   recoveryEmail, counterRef, loginModal>>

SuNext ==
    \/ OnValueFirstField
    \/ OnValuePassword
    \/ OnValueConfirmPassword
    \/ OnValueRecoveryEmail
    \/ SwitchSignupType
    \/ handleSubmit
    \/ CloseLoginModal
    \/ CallOnSubmit
    \/ RunSettles

(***************************************************************************)
(* EmailReminderWidget.                                                    *)
(***************************************************************************)
EVENT_NOT_FOUND_ERROR == "EVENT_NOT_FOUND"

DECRYPTION_ERROR == "DECRYPTION_ERROR"

\* the messages the widget can be given: whether the calendar-ID, event-ID,
\* occurrence and sequence headers are all there, whether the message has a
\* decryption error, and whether X-Pm-Calendar-Eventisrecurring is '1'
Messages ==
    << [headers |-> TRUE,  decryption |-> FALSE, recurring |-> FALSE],
       [headers |-> TRUE,  decryption |-> FALSE, recurring |-> TRUE],
       [headers |-> FALSE, decryption |-> FALSE, recurring |-> FALSE],
       [headers |-> TRUE,  decryption |-> TRUE,  recurring |-> FALSE] >>

MessageIDs == 1..Len(Messages)

\* the values a request or a helper can throw besides the two errors the
\* effect makes itself: an Error with another message; a value that is not an
\* Error and has no message (an object, a string, a number); an object that is
\* not an Error and has a message, which can be any text, that of the widget's
\* own errors included; undefined or null
Rejections == {"other", "nonError", "objectOther", "objectNotFound", "objectDecryption",
               "nullish"}

\* what a failed load throws
Thrown == {EVENT_NOT_FOUND_ERROR, DECRYPTION_ERROR} \cup Rejections

\* what a step of a load did: whether the load ended, what it threw, what
\* isMounted() returned, the banner it set, the notifications it created, the
\* message of its render and the state setters it called
NoEnd == [ended |-> FALSE, failure |-> "none", pc |-> "none", mounted |-> FALSE,
          banner |-> "none", notes |-> <<>>, rejected |-> FALSE, msg |-> 0, sets |-> {}]

\* fetchEvent always starting with the lookup by calendar ID and event ID
fetchEventDirect(byUID) == "getEvent"

\* fetchEvent(byUID): the request it makes first
fetchEvent(byUID) == IF byUID THEN "getPaginatedEventsByUID" ELSE "getEvent"

\* the load effect up to its first await, on the states it reads and sets; a
\* load keeps the requests fetchEvent made and how they ended
LoadEffect(m, st) ==
    IF ~Messages[m].headers \/ Messages[m].decryption
    THEN [st EXCEPT !.error = "none", !.loadedWidget = 0]
    ELSE IF st.loadedWidget = m
    THEN st
    ELSE [st EXCEPT !.error = "none", !.isLoading = TRUE,
                    !.loads = Append(@, [msg |-> m,
                                         pc |-> fetchEvent(Messages[m].recurring),
                                         lookups |-> << fetchEvent(Messages[m].recurring) >>,
                                         calendarData |-> "none"])]

EffectState == [error |-> error, loadedWidget |-> loadedWidget,
                isLoading |-> isLoading, loads |-> loads]

\* the states after the effect has run for message m
AfterEffect(m, st) ==
    LET r == LoadEffect(m, st)
    IN /\ error' = r.error
       /\ loadedWidget' = r.loadedWidget
       /\ isLoading' = r.isLoading
       /\ loads' = r.loads
       /\ loadCount' = loadCount + (Len(r.loads) - Len(st.loads))

RwInit ==
    /\ message \in MessageIDs
    /\ mounted = TRUE
    /\ refreshCount = 0
    /\ calendar = 0
    /\ calendarEvent = 0
    /\ vevent = 0
    /\ fetches = <<>>
    /\ lastEnd = NoEnd
    /\ LET r == LoadEffect(message, [error |-> "none", loadedWidget |-> 0,
                                     isLoading |-> FALSE, loads |-> <<>>])
       IN /\ error = r.error
          /\ loadedWidget = r.loadedWidget
          /\ isLoading = r.isLoading
          /\ loads = r.loads
          /\ loadCount = Len(r.loads)

\* the parent gives the widget another message: message.ID is a dependency of
\* the effect
ChangeMessage ==
    /\ mounted
    /\ loadCount < MaxLoads
    /\ \E m \in MessageIDs \ {message} :
          /\ message' = m
          /\ AfterEffect(m, EffectState)
    /\ lastEnd' = NoEnd
    /\ UNCHANGED <<mounted, refreshCount, calendar, calendarEvent, vevent, fetches>>

\* refresh: if isMounted(), loadedWidget is cleared and refreshCount, a
\* dependency of the effect, is incremented; it can be called after unmount
refresh ==
    /\ loadCount < MaxLoads
    /\ refreshCount < MaxRefresh
    /\ IF mounted
       THEN /\ refreshCount' = refreshCount + 1
            /\ AfterEffect(message, [EffectState EXCEPT !.loadedWidget = 0])
       ELSE UNCHANGED <<refreshCount, error, loadedWidget, isLoading, loads, loadCount>>
    /\ lastEnd' = NoEnd
    /\ UNCHANGED <<message, mounted, calendar, calendarEvent, vevent, fetches>>

Unmount ==
    /\ mounted
    /\ mounted' = FALSE
    /\ lastEnd' = NoEnd
    /\ UNCHANGED <<message, isLoading, error, loadedWidget, refreshCount, calendar,
                   calendarEvent, vevent, loads, fetches, loadCount>>

\* a load moves on to its next await
LoadStep(i, pc, events) ==
    /\ loads' = [loads EXCEPT ![i].pc = pc, ![i].lookups = @ \o events]
    /\ lastEnd' = NoEnd
    /\ UNCHANGED <<message, mounted, isLoading, error, loadedWidget, refreshCount,
                   calendar, calendarEvent, vevent, fetches, loadCount>>

\* the setters the finally block calls
FinallySets == IF mounted THEN {"setIsLoading", "setLoadedWidget"} ELSE {}

\* the finally block, run as load i ends: message.ID is the one of its render.
\* A load that getCalendars ended while its fetchEvent was waiting for an
\* answer leaves that call of fetchEvent running.
Finally(i, fetching) ==
    /\ loads' = RemoveAt(loads, i)
    /\ fetches' = (IF fetching
                   THEN Append(fetches, [msg |-> loads[i].msg, pc |-> loads[i].pc,
                                         lookups |-> loads[i].lookups])
                   ELSE fetches)
    /\ IF mounted
       THEN isLoading' = FALSE /\ loadedWidget' = loads[i].msg
       ELSE UNCHANGED <<isLoading, loadedWidget>>
    /\ UNCHANGED <<message, mounted, refreshCount, loadCount>>

\* a thrown value that is not an instance of Error
NotAnError(thrown) ==
    thrown \in {"nonError", "objectOther", "objectNotFound", "objectDecryption", "nullish"}

\* error.message, read from a thrown value that has properties
MessageOf(thrown) ==
    CASE thrown = "nonError" -> "undefined"
      [] thrown = "objectOther" -> "other"
      [] thrown = "objectNotFound" -> EVENT_NOT_FOUND_ERROR
      [] thrown = "objectDecryption" -> DECRYPTION_ERROR
      [] OTHER -> thrown

\* the catch block without its isMounted() check
catchErrorUnmounted(thrown, calendarData, isMounted) ==
    LET unknown == IF NotAnError(thrown) THEN << "Unknown error" >> ELSE <<>>
    IN IF thrown = "nullish"
       THEN [banner |-> "none", notes |-> unknown, rejected |-> TRUE]
       ELSE IF calendarData # "none" /\ MessageOf(thrown) = DECRYPTION_ERROR
       THEN [banner |-> IF calendarData = "needsAction" THEN "restore" ELSE "cannotDecrypt",
             notes |-> unknown, rejected |-> FALSE]
       ELSE IF MessageOf(thrown) = EVENT_NOT_FOUND_ERROR
       THEN [banner |-> "notFound", notes |-> unknown, rejected |-> FALSE]
       ELSE [banner |-> "none", notes |-> Append(unknown, MessageOf(thrown)),
             rejected |-> FALSE]

\* the catch block with its last createNotification left out
catchErrorWithoutLastNotification(thrown, calendarData, isMounted) ==
    LET unknown == IF NotAnError(thrown) THEN << "Unknown error" >> ELSE <<>>
    IN IF ~isMounted
       THEN [banner |-> "none", notes |-> unknown, rejected |-> FALSE]
       ELSE IF thrown = "nullish"
       THEN [banner |-> "none", notes |-> unknown, rejected |-> TRUE]
       ELSE IF calendarData # "none" /\ MessageOf(thrown) = DECRYPTION_ERROR
       THEN [banner |-> IF calendarData = "needsAction" THEN "restore" ELSE "cannotDecrypt",
             notes |-> unknown, rejected |-> FALSE]
       ELSE IF MessageOf(thrown) = EVENT_NOT_FOUND_ERROR
       THEN [banner |-> "notFound", notes |-> unknown, rejected |-> FALSE]
       ELSE [banner |-> "none", notes |-> unknown, rejected |-> FALSE]

\* the catch block: the banner it sets ("none" when it sets none), the texts
\* of the notifications it creates, and whether it throws in its turn.  Once
\* past the isMounted() check it reads error.message, which throws a
\* TypeError when the value caught is undefined or null: nothing more is
\* notified and the promise of the effect is rejected.
catchError(thrown, calendarData, isMounted) ==
    LET unknown == IF NotAnError(thrown) THEN << "Unknown error" >> ELSE <<>>
    IN IF ~isMounted
       THEN [banner |-> "none", notes |-> unknown, rejected |-> FALSE]
       ELSE IF thrown = "nullish"
       THEN [banner |-> "none", notes |-> unknown, rejected |-> TRUE]
       ELSE IF calendarData # "none" /\ MessageOf(thrown) = DECRYPTION_ERROR
       THEN [banner |-> IF calendarData = "needsAction" THEN "restore" ELSE "cannotDecrypt",
             notes |-> unknown, rejected |-> FALSE]
       ELSE IF MessageOf(thrown) = EVENT_NOT_FOUND_ERROR
       THEN [banner |-> "notFound", notes |-> unknown, rejected |-> FALSE]
       ELSE [banner |-> "none", notes |-> Append(unknown, MessageOf(thrown)),
             rejected |-> FALSE]

\* load i throws: catch, then finally
LoadFails(i, thrown, fetching) ==
    LET caught == catchError(thrown, loads[i].calendarData, mounted)
    IN /\ error' = (IF caught.banner # "none" THEN caught.banner ELSE error)
       /\ lastEnd' = [ended |-> TRUE, failure |-> thrown, pc |-> loads[i].pc,
                      mounted |-> mounted,
                      banner |-> caught.banner, notes |-> caught.notes,
                      rejected |-> caught.rejected,
                      msg |-> loads[i].msg,
                      sets |-> (IF caught.banner # "none" THEN {"setError"} ELSE {})
                               \cup FinallySets]
       /\ Finally(i, fetching)
       /\ UNCHANGED <<calendar, calendarEvent, vevent>>

\* fetchEvent: the lookup by calendar ID and event ID answers
GetEventOk ==
    \E i \in 1..Len(loads) :
        /\ loads[i].pc = "getEvent"
        /\ LoadStep(i, "getCalendar", << "ok" >>)

\* fetchEvent: the lookup fails and the search by UID is made
GetEventFails ==
    \E i \in 1..Len(loads) :
        /\ loads[i].pc = "getEvent"
        /\ LoadStep(i, fetchEvent(TRUE), << "failed", fetchEvent(TRUE) >>)

\* fetchEvent: the search by UID finds the event, finds nothing, finds the
\* occurrence among the Exdates, or is rejected
EventsByUID ==
    \E i \in 1..Len(loads) :
        /\ loads[i].pc = "getPaginatedEventsByUID"
        /\ \/ LoadStep(i, "getCalendar", << "ok" >>)
           \/ LoadFails(i, EVENT_NOT_FOUND_ERROR, FALSE)
           \/ \E thrown \in Rejections : LoadFails(i, thrown, FALSE)

\* getCalendars has answered and the calendar of the event, if it is among
\* them, has its keys reactivated
CalendarReady ==
    \E i \in 1..Len(loads), data \in {"none", "ok", "needsAction"} :
        /\ loads[i].pc = "getCalendar"
        /\ IF mounted
           THEN /\ calendar' = (IF data = "none" THEN 0 ELSE loads[i].msg)
                /\ loads' = [loads EXCEPT ![i].pc = "getCalendarEventRaw",
                                          ![i].calendarData = data]
                /\ UNCHANGED <<isLoading, loadedWidget>>
           ELSE /\ loads' = RemoveAt(loads, i)
                /\ UNCHANGED <<calendar, isLoading, loadedWidget>>
        /\ lastEnd' = [NoEnd EXCEPT !.ended = ~mounted, !.mounted = mounted,
                                     !.msg = loads[i].msg,
                                     !.sets = IF mounted THEN {"setCalendar"} ELSE {}]
        /\ UNCHANGED <<message, mounted, error, refreshCount, calendarEvent, vevent,
                       fetches, loadCount>>

\* getCalendars, awaited together with fetchEvent, is rejected, whatever
\* fetchEvent is doing; or getCalendarWithReactivatedKeys is rejected
GetCalendarFails ==
    \E i \in 1..Len(loads), thrown \in Rejections :
        /\ loads[i].pc \in {"getEvent", "getPaginatedEventsByUID", "getCalendar"}
        /\ LoadFails(i, thrown, loads[i].pc # "getCalendar")

\* a call of fetchEvent whose load has ended gets an answer: the lookup by
\* calendar ID and event ID that fails is still followed by the search by
\* UID; any other answer ends the call, and nobody reads its result
FetchEventAfterEnd ==
    /\ \E k \in 1..Len(fetches) :
          \/ /\ fetches[k].pc = "getEvent"
             /\ fetches' = [fetches EXCEPT
                                ![k].pc = fetchEvent(TRUE),
                                ![k].lookups = @ \o << "failed", fetchEvent(TRUE) >>]
          \/ fetches' = RemoveAt(fetches, k)
    /\ lastEnd' = NoEnd
    /\ UNCHANGED <<message, mounted, isLoading, error, loadedWidget, refreshCount,
                   calendar, calendarEvent, vevent, loads, loadCount>>

\* getCalendarEventRaw is rejected
EventRawFails ==
    \E i \in 1..Len(loads) :
        /\ loads[i].pc = "getCalendarEventRaw"
        /\ LoadFails(i, DECRYPTION_ERROR, FALSE)

\* getCalendarEventRaw has answered and reading the answer throws: the
\* destructuring of veventComponent, which comes before the isMounted()
\* check and so can throw after unmount too, or, when mounted, the rule or
\* the date helpers
EventRawThrows ==
    \E i \in 1..Len(loads), thrown \in Rejections :
        /\ loads[i].pc = "getCalendarEventRaw"
        /\ LoadFails(i, thrown, FALSE)

\* getCalendarEventRaw has answered; the occurrence can be past the rule's end
EventRawOk ==
    \E i \in 1..Len(loads), expired \in BOOLEAN :
        /\ loads[i].pc = "getCalendarEventRaw"
        /\ IF ~mounted
           THEN /\ loads' = RemoveAt(loads, i)
                /\ lastEnd' = [NoEnd EXCEPT !.ended = TRUE, !.msg = loads[i].msg]
                /\ UNCHANGED <<message, mounted, isLoading, error, loadedWidget,
                               refreshCount, calendar, calendarEvent, vevent, fetches,
                               loadCount>>
           ELSE IF expired
           THEN LoadFails(i, EVENT_NOT_FOUND_ERROR, FALSE)
           ELSE /\ calendarEvent' = loads[i].msg
                /\ vevent' = loads[i].msg
                /\ lastEnd' = [NoEnd EXCEPT !.ended = TRUE, !.mounted = TRUE,
                                             !.msg = loads[i].msg,
                                             !.sets = {"setCalendarEvent", "setVevent"}
                                                      \cup FinallySets]
                /\ Finally(i, FALSE)
                /\ UNCHANGED <<error, calendar>>

\* what the component returns: the skeleton, the error banner, nothing, or
\* the event of its states
Rendered ==
    IF isLoading THEN "skeleton"
    ELSE IF error # "none" /\ ~Messages[message].decryption THEN "banner"
    ELSE IF \/ calendarEvent = 0
            \/ vevent = 0
            \/ calendar = 0
            \/ ~Messages[message].headers
            \/ Messages[message].decryption
    THEN "null"
    ELSE "event"

RwNext ==
    \/ ChangeMessage
    \/ refresh
    \/ Unmount
    \/ GetEventOk
    \/ GetEventFails
    \/ EventsByUID
    \/ CalendarReady
    \/ GetCalendarFails
    \/ FetchEventAfterEnd
    \/ EventRawFails
    \/ EventRawThrows
    \/ EventRawOk

(***************************************************************************)
(* fetchEvent(true): the choice among the events the search by UID         *)
(* returned.  An event is given by its CalendarID, its Exdates and its     *)
(* RecurrenceID (0 when it has none); the header's calendar is calendar 1. *)
(* The event returned is named by its place in the answer.                 *)
(***************************************************************************)
calendarIdHeader == 1

Occurrences == {1, 2}

CalendarEvents ==
    [CalendarID : {1, 2}, Exdates : {{}, {1}, {2}}, RecurrenceID : {0, 1, 2}]

RECURSIVE Answers(_)
Answers(n) ==
    IF n = 0 THEN {<<>>}
    ELSE Answers(n - 1) \cup
         {Append(a, e) : a \in {b \in Answers(n - 1) : Len(b) = n - 1},
                         e \in CalendarEvents}

\* Array.prototype.filter and find, on the places of a list
Filter(places, Test(_)) == SelectSeq(places, Test)

Find(places, Test(_)) ==
    LET found == SelectSeq(places, Test)
    IN IF found = <<>> THEN 0 ELSE Head(found)

\* the byUID branch with the events of every calendar considered
fetchEventByUIDAnyCalendar(allEventsByUID, calendarId, occurrence) ==
    LET events == [i \in 1..Len(allEventsByUID) |-> i]
        Excluded(i) == occurrence \in allEventsByUID[i].Exdates
        currentEvent == Find(events, LAMBDA i : allEventsByUID[i].RecurrenceID = occurrence)
        baseEvent == Find(events, LAMBDA i : allEventsByUID[i].RecurrenceID = 0)
    IN IF Len(allEventsByUID) = 0 THEN [thrown |-> EVENT_NOT_FOUND_ERROR, Event |-> 0]
       ELSE IF Find(events, Excluded) # 0 THEN [thrown |-> EVENT_NOT_FOUND_ERROR, Event |-> 0]
       ELSE IF currentEvent # 0 THEN [thrown |-> "none", Event |-> currentEvent]
       ELSE IF baseEvent # 0 THEN [thrown |-> "none", Event |-> baseEvent]
       ELSE [thrown |-> "none", Event |-> events[1]]

\* the byUID branch of fetchEvent once getPaginatedEventsByUID has answered
fetchEventByUID(allEventsByUID, calendarId, occurrence) ==
    LET all == [i \in 1..Len(allEventsByUID) |-> i]
        sameCalendarEvents == Filter(all, LAMBDA i : allEventsByUID[i].CalendarID = calendarId)
        events == IF Len(sameCalendarEvents) # 0 THEN sameCalendarEvents ELSE all
        Excluded(i) == occurrence \in allEventsByUID[i].Exdates
        currentEvent == Find(events, LAMBDA i : allEventsByUID[i].RecurrenceID = occurrence)
        baseEvent == Find(events, LAMBDA i : allEventsByUID[i].RecurrenceID = 0)
    IN IF Len(allEventsByUID) = 0 THEN [thrown |-> EVENT_NOT_FOUND_ERROR, Event |-> 0]
       ELSE IF Find(events, Excluded) # 0 THEN [thrown |-> EVENT_NOT_FOUND_ERROR, Event |-> 0]
       ELSE IF currentEvent # 0 THEN [thrown |-> "none", Event |-> currentEvent]
       ELSE IF baseEvent # 0 THEN [thrown |-> "none", Event |-> baseEvent]
       ELSE [thrown |-> "none", Event |-> events[1]]

UidInit ==
    /\ uidPc = "asked"
    /\ uidOccurrence \in Occurrences
    /\ uidEvents = <<>>
    /\ uidResult = [thrown |-> "none", Event |-> 0]

\* getPaginatedEventsByUID answers and fetchEvent returns or throws
SearchByUIDAnswers ==
    /\ uidPc = "asked"
    /\ \E answer \in Answers(MaxEvents) :
          /\ uidEvents' = answer
          /\ uidResult' = fetchEventByUID(answer, calendarIdHeader, uidOccurrence)
    /\ uidPc' = "answered"
    /\ UNCHANGED uidOccurrence

UidNext == SearchByUIDAnswers

(***************************************************************************)
(* SortDropdownMenu: the sort menu of the mail toolbar.  The parent applies *)
(* the Sort value it is given by onSort.                                   *)
(***************************************************************************)
TIME == "Time"

SIZE == "Size"

\* the labels a list can have, MAILBOX_LABEL_IDS.SCHEDULED among them
LabelIDs == {"INBOX", "SENT", "SCHEDULED"}

isScheduledLabel(label) == label = "SCHEDULED"

hideSizeSorting == isSearch /\ esStatus.dbExists /\ esStatus.esEnabled

\* the selection flags of the four buttons
isNewToOld(label, srt) ==
    IF ~isScheduledLabel(label) THEN srt.sort = TIME /\ srt.desc
    ELSE srt.sort = TIME /\ ~srt.desc

isOldToNew(label, srt) ==
    IF ~isScheduledLabel(label) THEN srt.sort = TIME /\ ~srt.desc
    ELSE srt.sort = TIME /\ srt.desc

isLargeToSmall(label, srt) == srt.sort = SIZE /\ srt.desc

isSmallToLarge(label, srt) == srt.sort = SIZE /\ ~srt.desc

\* the buttons rendered, by their data-testid
SortOptions ==
    {"sort-new-to-old", "sort-old-to-new"}
    \cup (IF hideSizeSorting THEN {} ELSE {"sort-desc", "sort-asc"})

isSelected(option, label, srt) ==
    CASE option = "sort-new-to-old" -> isNewToOld(label, srt)
      [] option = "sort-old-to-new" -> isOldToNew(label, srt)
      [] option = "sort-desc" -> isLargeToSmall(label, srt)
      [] option = "sort-asc" -> isSmallToLarge(label, srt)

\* the Sort value a button's onClick gives to onSort
onSort(option) ==
    CASE option = "sort-new-to-old" -> [sort |-> TIME, desc |-> TRUE]
      [] option = "sort-old-to-new" -> [sort |-> TIME, desc |-> FALSE]
      [] option = "sort-desc" -> [sort |-> SIZE, desc |-> TRUE]
      [] option = "sort-asc" -> [sort |-> SIZE, desc |-> FALSE]

SortInit ==
    /\ labelID \in LabelIDs
    /\ isSearch \in BOOLEAN
    /\ esStatus \in [dbExists : BOOLEAN, esEnabled : BOOLEAN]
    /\ borderBottom \in BOOLEAN
    /\ sort \in [sort : {TIME, SIZE}, desc : BOOLEAN]
    /\ lastOption = "none"

\* a click on a button of the menu; the parent applies the value
ClickSortOption ==
    /\ \E option \in SortOptions :
          /\ sort' = onSort(option)
          /\ lastOption' = option
    /\ UNCHANGED <<labelID, isSearch, esStatus, borderBottom>>

\* the list is given another label
ChangeLabel ==
    /\ \E label \in LabelIDs \ {labelID} : labelID' = label
    /\ lastOption' = "none"
    /\ UNCHANGED <<isSearch, esStatus, borderBottom, sort>>

SortNext ==
    \/ ClickSortOption
    \/ ChangeLabel

(***************************************************************************)
(* DownloadProvider: a context over the download hook.  The hook is not    *)
(* part of the component; it is given the behaviour of a transfer list in  *)
(* which each link is absent, pending, in progress, paused, canceled or    *)
(* done.                                                                   *)
(***************************************************************************)
Links == 1..MaxDownloads

\* createContext(null): what useContext returns outside a provider
DownloadContext == [null |-> TRUE]

\* what the hook returns, as far as its data goes
useDownload ==
    [downloads |-> downloads,
     hasDownloads |-> \E l \in Links : downloads[l] # "absent"]

\* DownloadProvider: the value it provides, built from the hook's return
DownloadProvider ==
    LET hook == useDownload
    IN [downloads |-> hook.downloads, hasDownloads |-> hook.hasDownloads]

\* useContext(DownloadContext), in a component inside or outside a provider
useContext(inside) == IF inside THEN DownloadProvider ELSE DownloadContext

\* the hook handing out whatever the context holds
useDownloadProviderUnchecked(state) ==
    [thrown |-> "", returned |-> TRUE, value |-> state]

\* useDownloadProvider, given the state useContext returned
useDownloadProvider(state) ==
    IF state = DownloadContext
    THEN [thrown |-> "Trying to use uninitialized DownloadProvider",
          returned |-> FALSE, value |-> DownloadContext]
    ELSE [thrown |-> "", returned |-> TRUE, value |-> state]

NoUse == [called |-> FALSE, inside |-> FALSE,
          result |-> [thrown |-> "", returned |-> FALSE, value |-> DownloadContext]]

DlInit ==
    /\ downloads = [l \in Links |-> "absent"]
    /\ lastUse = NoUse

\* a component calls useDownloadProvider
CallUseDownloadProvider ==
    /\ \E inside \in BOOLEAN :
          lastUse' = [called |-> TRUE, inside |-> inside,
                      result |-> useDownloadProvider(useContext(inside))]
    /\ UNCHANGED downloads

\* a transfer of the hook changes state
Transfer(from, to) ==
    /\ \E l \in Links :
          /\ downloads[l] \in from
          /\ downloads' = [downloads EXCEPT ![l] = to]
    /\ lastUse' = NoUse

download == Transfer({"absent"}, "pending")

StartTransfer == Transfer({"pending"}, "progress")

FinishTransfer == Transfer({"progress"}, "done")

pauseDownloads == Transfer({"pending", "progress"}, "paused")

resumeDownloads == Transfer({"paused"}, "progress")

cancelDownloads == Transfer({"pending", "progress", "paused"}, "canceled")

restartDownloads == Transfer({"canceled"}, "pending")

removeDownloads == Transfer({"pending", "progress", "paused", "canceled", "done"}, "absent")

clearDownloads ==
    /\ \E l \in Links : downloads[l] # "absent"
    /\ downloads' = [l \in Links |-> "absent"]
    /\ lastUse' = NoUse

DlNext ==
    \/ CallUseDownloadProvider
    \/ download
    \/ StartTransfer
    \/ FinishTransfer
    \/ pauseDownloads
    \/ resumeDownloads
    \/ cancelDownloads
    \/ restartDownloads
    \/ removeDownloads
    \/ clearDownloads

(***************************************************************************)
(* Specifications: one per component; the state of the others is at rest.  *)
(***************************************************************************)
WgOff ==
    /\ creating = FALSE
    /\ peer = DefaultPeer
    /\ maxTier = 0
    /\ certificates = <<>>
    /\ removedCertificates = <<>>
    /\ removing = {}
    /\ certificateCache = [f \in Fingerprints |-> NoCert]
    /\ certificatesResult = <<>>
    /\ memo = [creating |-> FALSE, certificates |-> <<>>]
    /\ ops = <<>>
    /\ nextId = 0
    /\ nextKey = 0
    /\ lastClick = NoClick
    /\ lastNote = "none"
    /\ deletedOk = {}
    /\ lastKey = NoKey

KeysOff ==
    /\ curve = TRUE
    /\ rpkPc = "off"
    /\ rpkI = 0
    /\ rpkDraws = 0
    /\ rpkMissed = FALSE
    /\ rpkResult = <<>>
    /\ xHashed = <<>>
    /\ xDigest = <<>>
    /\ xResult = <<>>

LpOff ==
    /\ supports = TRUE
    /\ lpPc = "off"
    /\ observer = FALSE
    /\ doc = <<>>

SuOff ==
    /\ lastTyped = NoTyped
    /\ defaultSignupType = "Username"
    /\ hasExternalSignup = FALSE
    /\ signupType = "Off"
    /\ username = <<>>
    /\ email = <<>>
    /\ password = <<>>
    /\ confirmPassword = <<>>
    /\ recoveryEmail = <<>>
    /\ loading = FALSE
    /\ counterRef = 0
    /\ loginModal = FALSE
    /\ runs = <<>>
    /\ lastSubmit = NoSubmit

RwOff ==
    /\ message = 0
    /\ mounted = FALSE
    /\ isLoading = FALSE
    /\ error = "none"
    /\ loadedWidget = 0
    /\ refreshCount = 0
    /\ calendar = 0
    /\ calendarEvent = 0
    /\ vevent = 0
    /\ loads = <<>>
    /\ fetches = <<>>
    /\ loadCount = 0
    /\ lastEnd = NoEnd

UidOff ==
    /\ uidPc = "off"
    /\ uidOccurrence = 0
    /\ uidEvents = <<>>
    /\ uidResult = [thrown |-> "none", Event |-> 0]

SortOff ==
    /\ labelID = "none"
    /\ isSearch = FALSE
    /\ esStatus = [dbExists |-> FALSE, esEnabled |-> FALSE]
    /\ borderBottom = FALSE
    /\ sort = [sort |-> TIME, desc |-> TRUE]
    /\ lastOption = "none"

CalOff ==
    /\ model = [calendar |-> "off"]
    /\ frozen = TRUE
    /\ calendarChange = [stage |-> "off"]
    /\ lastChange = [ended |-> FALSE]

ScopeOff ==
    /\ provider = "none"
    /\ checkedTypes = [t \in {} |-> "undefined"]
    /\ scopes = <<>>
    /\ scopePc = "off"

SelOff ==
    /\ elements = <<>>
    /\ selectedIDs = <<>>
    /\ disabled = TRUE
    /\ lastCheck = [called |-> FALSE, IDs |-> <<>>, checked |-> FALSE, replace |-> FALSE,
                    toggled |-> FALSE, off |-> TRUE]

BestOff ==
    /\ blPc = "off"
    /\ blLogicals = <<>>
    /\ blMaxTier = 0
    /\ blBest = 0

DlOff ==
    /\ downloads = <<>>
    /\ lastUse = NoUse

\* the WireGuard configuration section
Init == WgInit /\ KeysOff /\ LpOff /\ SuOff /\ RwOff /\ DlOff
    /\ UidOff /\ SortOff /\ BestOff /\ SelOff /\ ScopeOff /\ CalOff

Next == WgNext /\ UNCHANGED <<keyVars, lpVars, suVars, rwVars, dlVars, uidVars,
        sortVars, bestVars, selVars, scopeVars, calVars>>

Spec == Init /\ [][Next]_vars

\* the key helpers of the WireGuard configuration section
InitKeys == KeysInit /\ WgOff /\ LpOff /\ SuOff /\ RwOff /\ DlOff
    /\ UidOff /\ SortOff /\ BestOff /\ SelOff /\ ScopeOff /\ CalOff

NextKeys == KeysNext /\ UNCHANGED <<wgVars, lpVars, suVars, rwVars, dlVars,
        uidVars, sortVars, bestVars, selVars, scopeVars, calVars>>

SpecKeys == InitKeys /\ [][NextKeys]_vars

\* the polyfill of CSS logical properties
InitLogical == LpInit /\ WgOff /\ KeysOff /\ SuOff /\ RwOff /\ DlOff
    /\ UidOff /\ SortOff /\ BestOff /\ SelOff /\ ScopeOff /\ CalOff

NextLogical == LpNext /\ UNCHANGED <<wgVars, keyVars, suVars, rwVars, dlVars,
        uidVars, sortVars, bestVars, selVars, scopeVars, calVars>>

SpecLogical == InitLogical /\ [][NextLogical]_vars

\* the first step of the signup form
InitSignup == SuInit /\ WgOff /\ KeysOff /\ LpOff /\ RwOff /\ DlOff
    /\ UidOff /\ SortOff /\ BestOff /\ SelOff /\ ScopeOff /\ CalOff

NextSignup == SuNext /\ UNCHANGED <<wgVars, keyVars, lpVars, rwVars, dlVars,
        uidVars, sortVars, bestVars, selVars, scopeVars, calVars>>

SpecSignup == InitSignup /\ [][NextSignup]_vars

\* the email reminder widget
InitReminder == RwInit /\ WgOff /\ KeysOff /\ LpOff /\ SuOff /\ DlOff
    /\ UidOff /\ SortOff /\ BestOff /\ SelOff /\ ScopeOff /\ CalOff

NextReminder == RwNext /\ UNCHANGED <<wgVars, keyVars, lpVars, suVars, dlVars,
        uidVars, sortVars, bestVars, selVars, scopeVars, calVars>>

SpecReminder == InitReminder /\ [][NextReminder]_vars

\* the download context
InitDownload == DlInit /\ WgOff /\ KeysOff /\ LpOff /\ SuOff /\ RwOff
    /\ UidOff /\ SortOff /\ BestOff /\ SelOff /\ ScopeOff /\ CalOff

NextDownload == DlNext /\ UNCHANGED <<wgVars, keyVars, lpVars, suVars, rwVars,
        uidVars, sortVars, bestVars, selVars, scopeVars, calVars>>

SpecDownload == InitDownload /\ [][NextDownload]_vars

\* the WireGuard configuration section, creations and reloads only
InitSession == SessionInit /\ KeysOff /\ LpOff /\ SuOff /\ RwOff /\ DlOff
    /\ UidOff /\ SortOff /\ BestOff /\ SelOff /\ ScopeOff /\ CalOff

NextSession == SessionNext /\ UNCHANGED <<keyVars, lpVars, suVars, rwVars, dlVars,
        uidVars, sortVars, bestVars, selVars, scopeVars, calVars>>

SpecSession == InitSession /\ [][NextSession]_vars

\* the search by UID of the email reminder widget
InitSearch ==
    UidInit /\ WgOff /\ KeysOff /\ LpOff /\ SuOff /\ RwOff /\ DlOff /\ SortOff
    /\ BestOff /\ SelOff /\ ScopeOff /\ CalOff

NextSearch ==
    UidNext /\ UNCHANGED <<wgVars, keyVars, lpVars, suVars, rwVars, dlVars,
        sortVars, bestVars, selVars, scopeVars, calVars>>

SpecSearch == InitSearch /\ [][NextSearch]_vars

\* the sort menu of the mail toolbar
InitSort ==
    SortInit /\ WgOff /\ KeysOff /\ LpOff /\ SuOff /\ RwOff /\ DlOff /\ UidOff
    /\ BestOff /\ SelOff /\ ScopeOff /\ CalOff

NextSort ==
    SortNext /\ UNCHANGED <<wgVars, keyVars, lpVars, suVars, rwVars, dlVars, uidVars,
        bestVars, selVars, scopeVars, calVars>>

SpecSort == InitSort /\ [][NextSort]_vars

\* the calendar select of the event modal
InitCalendar ==
    CalInit /\ WgOff /\ KeysOff /\ LpOff /\ SuOff /\ RwOff /\ DlOff /\ UidOff
    /\ SortOff /\ BestOff /\ SelOff /\ ScopeOff

NextCalendar ==
    CalNext /\ UNCHANGED <<wgVars, keyVars, lpVars, suVars, rwVars, dlVars, uidVars,
                           sortVars, bestVars, selVars, scopeVars>>

SpecCalendar == InitCalendar /\ [][NextCalendar]_vars

\* the scopes asked of an OAuth provider
InitScope ==
    ScopeInit /\ WgOff /\ KeysOff /\ LpOff /\ SuOff /\ RwOff /\ DlOff /\ UidOff
    /\ SortOff /\ BestOff /\ SelOff /\ CalOff

NextScope ==
    ScopeNext /\ UNCHANGED <<wgVars, keyVars, lpVars, suVars, rwVars, dlVars, uidVars,
                             sortVars, bestVars, selVars, calVars>>

SpecScope == InitScope /\ [][NextScope]_vars

\* the select-all checkbox of the mail toolbar
InitSelect ==
    SelInit /\ WgOff /\ KeysOff /\ LpOff /\ SuOff /\ RwOff /\ DlOff /\ UidOff
    /\ SortOff /\ BestOff /\ ScopeOff /\ CalOff

NextSelect ==
    SelNext /\ UNCHANGED <<wgVars, keyVars, lpVars, suVars, rwVars, dlVars, uidVars,
                           sortVars, bestVars, scopeVars, calVars>>

SpecSelect == InitSelect /\ [][NextSelect]_vars

\* the best server of the WireGuard configuration section
InitBest ==
    BestInit /\ WgOff /\ KeysOff /\ LpOff /\ SuOff /\ RwOff /\ DlOff /\ UidOff
    /\ SortOff /\ SelOff /\ ScopeOff /\ CalOff

NextBest ==
    BestNext /\ UNCHANGED <<wgVars, keyVars, lpVars, suVars, rwVars, dlVars, uidVars,
                            sortVars, selVars, scopeVars, calVars>>

SpecBest == InitBest /\ [][NextBest]_vars

(***************************************************************************)
(* Claims about the WireGuard configuration section.                       *)
(***************************************************************************)
\* C1: recovery is retry-by-user-click: once every creation or extension attempt
\* has finished the creating flag is false, and a click on Create, on a server
\* or on Extend made when no attempt is unfinished starts a new attempt.
C1_RetryByUserClick ==
    /\ (CreationOps = {} => ~creating)
    /\ (lastClick.idle => lastClick.started)

\* C2: randomPrivateKey returns only a 32-byte value in the range 1 < num < n,
\* the first such sample drawn, after at most 1024 samples; it throws only with
\* no sample drawn when the curve is unavailable, or after exactly 1024 samples
\* none of which was in the range.
C2_RandomPrivateKey ==
    /\ rpkDraws <= Iterations
    /\ ~rpkMissed
    /\ rpkPc = "returned" =>
          /\ curve
          /\ Len(rpkResult) = KeyLength
          /\ rpkResult \in ValidSamples
    /\ rpkPc = "thrown" =>
          /\ rpkResult = <<>>
          /\ rpkDraws = (IF curve THEN Iterations ELSE 0)

C2_Witness ==
    \/ rpkPc = "returned" /\ rpkDraws = Iterations /\ rpkResult = [CurveN EXCEPT ![1] = 236]
    \/ rpkPc = "thrown" /\ curve /\ rpkDraws = Iterations

\* C3: getX25519PrivateKey returns the first 32 bytes of the digest with the three
\* low bits of byte 0 cleared, the top bit of byte 31 cleared and bit 6 of byte
\* 31 set, and bytes 1..30 unchanged.
C3_X25519Clamp ==
    rpkPc = "derived" =>
        LET out == base64StringToUint8Array(xResult)
        IN /\ Len(out) = KeyLength
           /\ out[1] = xDigest[1] - (xDigest[1] % 8)
           /\ out[1] % 8 = 0
           /\ out[KeyLength] = 64 + (xDigest[KeyLength] % 64)
           /\ out[KeyLength] \in 64..127
           /\ \A i \in 2..(KeyLength - 1) : out[i] = xDigest[i]

C3_Witness ==
    /\ rpkPc = "derived"
    /\ xDigest[1] = 255
    /\ xDigest[KeyLength] = 191
    /\ base64StringToUint8Array(xResult)[1] = 248
    /\ base64StringToUint8Array(xResult)[KeyLength] = 127

\* C9: at most one certificate creation or extension request is in flight.
C9_OneRequestInFlight == Cardinality(RequestsInFlight) <= 1

\* C10: a certificate whose delete request returned a non-zero Count is never
\* listed again by getCertificates.
C10_DeletedStaysUnlisted ==
    \A c \in Listed(certificateCache) : c.fp \notin deletedOk

(***************************************************************************)
(* Claims about the polyfill of CSS logical properties.                    *)
(***************************************************************************)
\* the origin of a URL is the text before its path
SameOrigin(url) == StartsWith(url, << "o", "/" >>)

IsStylesheetLink(n) == n.tag = "LINK" /\ n.rel = "stylesheet"

\* C6: without support for logical properties, after initLogicalProperties every
\* same-origin stylesheet link whose URL ends in .css, present at initialization
\* or added under document.head later, has an href that ends in .ltr.css, once
\* the observer has been called for it.
C6_LocalStylesheetsRewritten ==
    (lpPc = "after" /\ ~supports) =>
        \A i \in 1..Len(doc) :
            (/\ ~doc[i].queued
             /\ IsStylesheetLink(doc[i])
             /\ SameOrigin(doc[i].first)
             /\ EndsWith(doc[i].first, << ".css" >>)
             /\ doc[i].initial \/ doc[i].place \in {"head", "within", "nested"})
            => EndsWith(doc[i].href, ending)

\* C7: a link that is cross-origin, is not a stylesheet, does not end in .css or
\* already ends in .ltr.css is never modified; with support for logical
\* properties no link is modified and no observer is installed.
C7_OthersUnchanged ==
    /\ \A i \in 1..Len(doc) :
          (\/ ~SameOrigin(doc[i].first)
           \/ ~IsStylesheetLink(doc[i])
           \/ ~EndsWith(doc[i].first, << ".css" >>)
           \/ EndsWith(doc[i].first, ending))
          => doc[i].href = doc[i].first
    /\ supports => (~observer /\ \A i \in 1..Len(doc) : doc[i].href = doc[i].first)

(***************************************************************************)
(* Claims about the signup form.                                           *)
(***************************************************************************)
\* C5: handleSubmit starts no submission when the form is invalid or while an
\* earlier submission is loading, and at most one call of run(), hence of
\* onSubmit, is outstanding at a time.
C5_SubmitGated ==
    /\ lastSubmit.started => (lastSubmit.valid /\ ~lastSubmit.loading)
    /\ Len(runs) <= 1
    /\ Cardinality({i \in 1..Len(runs) : runs[i].phase = "onSubmit"}) <= 1

\* a second submit of a valid form while onSubmit is outstanding started nothing
C5_Witness ==
    /\ lastSubmit.attempt /\ lastSubmit.valid /\ lastSubmit.loading
    /\ ~lastSubmit.started
    /\ Len(runs) = 1 /\ runs[1].phase = "onSubmit"

(***************************************************************************)
(* Claims about the email reminder widget.                                 *)
(***************************************************************************)
\* C4: every load that fails while the widget is mounted sets an error banner
\* or creates an error notification.
C4_FailuresSurfaced ==
    /\ (lastEnd.failure # "none" /\ lastEnd.mounted) =>
          (lastEnd.banner # "none" \/ lastEnd.notes # <<>>)
    /\ lastEnd.banner # "none" => error = lastEnd.banner

\* a decryption failure for an event whose calendar is not among the user's:
\* no banner fits it and it is notified
C4_Witness ==
    /\ lastEnd.failure = DECRYPTION_ERROR
    /\ lastEnd.mounted
    /\ lastEnd.banner = "none"
    /\ lastEnd.notes = << DECRYPTION_ERROR >>

(***************************************************************************)
(* Claims about the download context.                                      *)
(***************************************************************************)
\* C8: useDownloadProvider called outside a DownloadProvider throws 'Trying to
\* use uninitialized DownloadProvider' and never returns null; called inside,
\* it returns the state built from the download hook.
C8_NeverUninitialized ==
    lastUse.called =>
        /\ ~lastUse.inside =>
              /\ lastUse.result.thrown = "Trying to use uninitialized DownloadProvider"
              /\ ~lastUse.result.returned
        /\ lastUse.result.returned => lastUse.result.value # DownloadContext
        /\ lastUse.inside =>
              /\ lastUse.result.thrown = ""
              /\ lastUse.result.returned
              /\ lastUse.result.value =
                    [downloads |-> downloads,
                     hasDownloads |-> \E l \in Links : downloads[l] # "absent"]

\* a call outside a provider, made while the hook has transfers, has thrown
C8_Witness ==
    /\ lastUse.called /\ ~lastUse.inside
    /\ lastUse.result.thrown # ""
    /\ \E l \in Links : downloads[l] = "paused"

(***************************************************************************)
(* Further claims about the WireGuard configuration section.               *)
(***************************************************************************)
RevocationOps == {i \in 1..Len(ops) : ops[i].kind = "revoke"}

\* C11: a certificate is marked removing from the click on its revoke button
\* until that revocation attempt ends, and once every started attempt has
\* ended no certificate is marked removing.
C11_RemovingFollowsAttempts ==
    /\ \A i \in RevocationOps : RevocationKey(ops[i].cert) \in removing
    /\ RevocationOps = {} => removing = {}

(***************************************************************************)
(* Further claims about the email reminder widget.                         *)
(***************************************************************************)
\* the setters of what the widget shows: the calendar, the event and the error
ShownSetters == {"setCalendar", "setCalendarEvent", "setVevent", "setError"}

\* C12: a load started for an earlier message never overwrites the calendar,
\* the event or the error shown for the current message.
C12_NoStaleOverwrite ==
    (lastEnd.msg # 0 /\ lastEnd.msg # message) => lastEnd.sets \cap ShownSetters = {}

\* C13: when the delete request returns Count 0 the warning 'not found or
\* already revoked' is shown and the certificate cache, removedCertificates and
\* certificates keep their values, so what was listed stays listed.
C13_NotFoundChangesNothing ==
    [][lastNote' = "notFound" =>
          /\ certificateCache' = certificateCache
          /\ removedCertificates' = removedCertificates
          /\ certificates' = certificates
          /\ Listed(certificateCache') = Listed(certificateCache)]_vars

\* a delete request was answered with Count 0 and its certificate is listed
C13_Witness ==
    /\ lastNote = "notFound"
    /\ Listed(certificateCache) # {}
    /\ removedCertificates = <<>>

\* an add that has not sent its certificate request: it awaits getKeyPair or
\* getX25519PrivateKey
AtKeyStep(o) == o.kind = "add" /\ o.phase \in {"key", "x25519"}

\* C14: when client-side key generation throws, the key pair comes from the key
\* endpoint and the creation proceeds with it; a creation ends at the key step
\* only when the key endpoint fails too. In every step: a call of getKeyPair
\* that ends returns the client's pair if there is one, else the key
\* endpoint's, and fails only without both; the creation then goes on with
\* the pair returned; and a creation that has not sent its certificate
\* request ends only in a step in which getKeyPair fails.
C14_KeyPairFallback ==
    [][/\ lastKey'.called =>
             /\ lastKey'.client => lastKey'.result = "client"
             /\ (~lastKey'.client /\ lastKey'.server) => lastKey'.result = "server"
             /\ lastKey'.result = "failed" <=> (~lastKey'.client /\ ~lastKey'.server)
             /\ lastKey'.result # "failed" =>
                   \E i \in 1..Len(ops') :
                       /\ AtKeyStep(ops'[i])
                       /\ ops'[i].src = lastKey'.result
                       /\ ops'[i].key = nextKey'
       /\ \A i \in 1..Len(ops) :
             (AtKeyStep(ops[i]) /\ ops' = RemoveAt(ops, i)) =>
                 (lastKey'.called /\ lastKey'.result = "failed")]_vars

HasRealKey(c) == c # NoCert /\ c.priv # privateKeyPlaceholder

\* C15: a certificate created in this session, listed with its private key,
\* stays listed with that private key until it is revoked.
C15_PrivateKeyKept ==
    [][\A fp \in Fingerprints :
          (HasRealKey(certificateCache[fp]) /\ fp \notin deletedOk') =>
              /\ HasRealKey(certificateCache'[fp])
              /\ certificateCache'[fp].priv = certificateCache[fp].priv]_vars

Revoked(fp) == InSeq(fp, removedCertificates) \/ fp \in deletedOk

\* C16: the list holds one certificate per fingerprint; while a fingerprint is
\* not revoked the expiration time of its listed certificate never decreases;
\* and when an extension succeeds the certificate it returned is listed.
C16_OnePerFingerprintLatest ==
    [][/\ \A c, d \in Listed(certificateCache') : c.fp = d.fp => c = d
       /\ \A fp \in Fingerprints :
             (certificateCache[fp] # NoCert /\ ~Revoked(fp)') =>
                 /\ certificateCache'[fp] # NoCert
                 /\ certificateCache'[fp].exp >= certificateCache[fp].exp
       /\ lastNote' = "extended" =>
             \A fp \in Fingerprints :
                 (certificateCache[fp] # NoCert /\ nextId' = nextId + 1
                  /\ ~Revoked(fp)'
                  /\ \E i \in 1..Len(ops) : ops[i].kind = "extend" /\ ops[i].cert.fp = fp
                                            /\ Len(ops') < Len(ops)
                                            /\ ops' = RemoveAt(ops, i)) =>
                     certificateCache'[fp].id = NewId]_vars

\* delete requests sent and not yet answered
DeleteRequests == SelectSeq(ops, LAMBDA o : o.kind = "revoke" /\ o.phase = "delete")

\* C17: closing the confirmation dialog of a revocation sends no delete
\* request, leaves the certificate cache, removedCertificates and certificates
\* unchanged, and clears the removing flag of that certificate and no other.
C17_CloseOnlyClearsFlag ==
    [][\A i \in 1..Len(ops) :
          (AwaitsConfirmation(i) /\ ops' = RemoveAt(ops, i)) =>
              /\ DeleteRequests' = DeleteRequests
              /\ certificateCache' = certificateCache
              /\ removedCertificates' = removedCertificates
              /\ certificates' = certificates
              /\ removing' = removing \ {RevocationKey(ops[i].cert)}]_vars

(***************************************************************************)
(* Further claims about the email reminder widget.                         *)
(***************************************************************************)
NotDisplayable(m) == ~Messages[m].headers \/ Messages[m].decryption

\* C18: for a message with one of the four headers missing or a decryption
\* error no load is started, and the mounted widget renders nothing: no
\* skeleton, no error banner and no event.
C18_HiddenWithoutHeaders ==
    /\ \A i \in 1..Len(loads) : ~NotDisplayable(loads[i].msg)
    /\ (mounted /\ NotDisplayable(message)) => Rendered = "null"

\* C19: once the widget is unmounted no state of the component changes and no
\* state setter is called, by a load that ends or by refresh.
C19_NoUpdateAfterUnmount ==
    [][~mounted =>
          /\ UNCHANGED <<calendar, calendarEvent, vevent, error, isLoading,
                         loadedWidget, refreshCount>>
          /\ lastEnd'.sets = {}]_vars

\* the widget is unmounted while a load waits for getCalendarEventRaw, whose
\* answer then cannot be destructured: the catch block notifies 'Unknown error'
\* for the thrown object and returns, and neither it nor the finally block
\* calls a setter, the widget staying as it was (loading, no banner)
C19_Witness ==
    /\ ~mounted /\ lastEnd.ended /\ ~lastEnd.mounted
    /\ lastEnd.pc = "getCalendarEventRaw"
    /\ lastEnd.failure = "objectNotFound"
    /\ lastEnd.notes = << "Unknown error" >>
    /\ lastEnd.sets = {}
    /\ isLoading /\ error = "none"

\* the requests of a fetchEvent in their order, as far as it has got
LookupOrders(recurring) ==
    IF recurring
    THEN {<< "getPaginatedEventsByUID" >>, << "getPaginatedEventsByUID", "ok" >>}
    ELSE {<< "getEvent" >>, << "getEvent", "ok" >>,
          << "getEvent", "failed", "getPaginatedEventsByUID" >>,
          << "getEvent", "failed", "getPaginatedEventsByUID", "ok" >>}

\* C20: fetchEvent makes the direct lookup first for a non-recurring event and
\* the search by UID only after that lookup failed; for a recurring event it
\* makes the search by UID only; nothing follows a search by UID, so a load
\* makes at most one request of each kind.
C20_LookupOrder ==
    /\ \A i \in 1..Len(loads) :
        /\ loads[i].lookups \in LookupOrders(Messages[loads[i].msg].recurring)
        /\ loads[i].pc \in {"getEvent", "getPaginatedEventsByUID"} =>
               loads[i].lookups[Len(loads[i].lookups)] = loads[i].pc
        /\ loads[i].pc \in {"getCalendar", "getCalendarEventRaw"} =>
               loads[i].lookups[Len(loads[i].lookups)] = "ok"
    /\ \A k \in 1..Len(fetches) :
        /\ fetches[k].lookups \in LookupOrders(Messages[fetches[k].msg].recurring)
        /\ fetches[k].lookups[Len(fetches[k].lookups)] = fetches[k].pc

C20_Witness ==
    \E i \in 1..Len(loads) :
        /\ ~Messages[loads[i].msg].recurring
        /\ loads[i].lookups = << "getEvent", "failed", "getPaginatedEventsByUID", "ok" >>
        /\ loads[i].pc = "getCalendarEventRaw"

\* the places of the answer fetchEvent considers: those of the header's
\* calendar if there is any, else all
Considered ==
    LET same == {i \in 1..Len(uidEvents) : uidEvents[i].CalendarID = calendarIdHeader}
    IN IF same # {} THEN same ELSE 1..Len(uidEvents)

FirstOf(places) == CHOOSE i \in places : \A j \in places : i <= j

\* C21: the search by UID ends with 'event not found' when the answer is empty
\* or a considered event has the occurrence among its Exdates; otherwise it
\* returns the first considered event whose RecurrenceID is the occurrence,
\* else the first without RecurrenceID, else the first considered event.
C21_EventSelection ==
    uidPc = "answered" =>
        LET excluded == {i \in Considered : uidOccurrence \in uidEvents[i].Exdates}
            current == {i \in Considered : uidEvents[i].RecurrenceID = uidOccurrence}
            base == {i \in Considered : uidEvents[i].RecurrenceID = 0}
        IN IF uidEvents = <<>> \/ excluded # {}
           THEN uidResult = [thrown |-> EVENT_NOT_FOUND_ERROR, Event |-> 0]
           ELSE /\ uidResult.thrown = "none"
                /\ uidResult.Event =
                      IF current # {} THEN FirstOf(current)
                      ELSE IF base # {} THEN FirstOf(base)
                      ELSE FirstOf(Considered)

\* an answer whose first event is of another calendar and would have been the
\* one chosen, while the event returned is the base event of the header's calendar
C21_Witness ==
    /\ uidPc = "answered"
    /\ Len(uidEvents) = 3
    /\ uidEvents[1].CalendarID # calendarIdHeader
    /\ uidEvents[1].RecurrenceID = uidOccurrence
    /\ uidEvents[2].CalendarID = calendarIdHeader
    /\ uidEvents[2].RecurrenceID # 0
    /\ uidResult = [thrown |-> "none", Event |-> 3]

\* the last step started a load
LoadStarted == Len(loads') = Len(loads) + 1

\* C22: a load is started only for the current message and only when
\* loadedWidget (cleared first by refresh) differs from its ID; when a load ends
\* while mounted isLoading is false and loadedWidget is the ID of the message;
\* a call of refresh while mounted clears loadedWidget, increments refreshCount
\* and starts one load of the current message.
C22_LoadCycle ==
    [][/\ LoadStarted =>
             /\ loads'[Len(loads')].msg = message'
             /\ (refreshCount' = refreshCount => loadedWidget # message')
       /\ (lastEnd'.ended /\ lastEnd'.mounted) =>
             /\ isLoading' = FALSE
             /\ loadedWidget' = message'
       /\ refreshCount' # refreshCount =>
             /\ mounted
             /\ refreshCount' = refreshCount + 1
             /\ loadedWidget' = 0
             /\ LoadStarted]_vars

(***************************************************************************)
(* Further claims about the signup form.                                   *)
(***************************************************************************)
\* C23: every valid submission of a VPN signup whose recovery email is on a
\* Proton domain opens the sign-in prompt and starts no call of onSubmit, and
\* no submission of another signup type or recovery email opens the prompt.
C23_ProtonRecoveryDiverted ==
    lastSubmit.attempt =>
        /\ (lastSubmit.valid /\ signupType = "VPN" /\ hasProtonDomain(recoveryEmail)) =>
               (lastSubmit.modal /\ loginModal /\ ~lastSubmit.started)
        /\ lastSubmit.modal => (signupType = "VPN" /\ hasProtonDomain(recoveryEmail))

C23_Witness ==
    /\ lastSubmit.attempt /\ lastSubmit.valid /\ lastSubmit.modal
    /\ signupType = "VPN"
    /\ recoveryEmail = << "u", "@", "p" >>
    /\ loginModal
    /\ runs = <<>>

\* the places of the typed value that hold another character than '@'
KeptPlaces == {i \in 1..Len(lastTyped.value) : lastTyped.value[i] # "@"}

\* the k-th of them
KeptPlace(k) == CHOOSE i \in KeptPlaces : Cardinality({j \in KeptPlaces : j <= i}) = k

\* C24: after a change of the username field the stored username is the typed
\* value without its '@' characters, the others kept in order, and it is the
\* last value given to setUsername, not the one with a trailing space.
C24_UsernameSanitized ==
    lastTyped.changed =>
        /\ \A k \in 1..Len(username) : username[k] # "@"
        /\ Len(username) = Cardinality(KeptPlaces)
        /\ \A k \in 1..Len(username) : username[k] = lastTyped.value[KeptPlace(k)]
        /\ username = lastTyped.stored[Len(lastTyped.stored)]

C24_Witness ==
    /\ lastTyped.changed
    /\ lastTyped.value = << "@", "u", "@", "u" >>
    /\ Len(lastTyped.stored) = 3
    /\ lastTyped.stored[2] = << "u", "u", " " >>
    /\ username = << "u", "u" >>

\* C25: a click on the switch button changes the signup type, from Username
\* or VPN to Email and from Email to the default signup type, clears the
\* username and the email, and leaves the password, its confirmation and the
\* recovery email unchanged.
C25_SwitchChangesType ==
    [][lastTyped'.switched =>
          /\ signupType' # signupType
          /\ signupType \in {"Username", "VPN"} => signupType' = "Email"
          /\ signupType = "Email" => signupType' = defaultSignupType
          /\ username' = <<>>
          /\ email' = <<>>
          /\ UNCHANGED <<password, confirmPassword, recoveryEmail>>]_vars

(***************************************************************************)
(* Claims about the sort menu.                                             *)
(***************************************************************************)
\* C26: after a click on an option of the sort menu, with the value given to
\* onSort applied, that option is shown as selected and no other is.
C26_SortRoundTrip ==
    lastOption # "none" =>
        \A option \in SortOptions :
            isSelected(option, labelID, sort) <=> option = lastOption

(***************************************************************************)
(* Further claims about the WireGuard configuration section.               *)
(***************************************************************************)
\* a bit of a non-negative number
Bit(n, k) == (n \div (2 ^ k)) % 2

\* the logical servers that can be proposed, by their place in the list
Qualifying ==
    {i \in 1..Len(blLogicals) :
        /\ \E k \in 1..Len(blLogicals[i].Servers) : blLogicals[i].Servers[k].x
        /\ blLogicals[i].Tier <= blMaxTier
        /\ Bit(blLogicals[i].Features, 0) = 0
        /\ Bit(blLogicals[i].Features, 1) = 0}

\* C27: the best server is a logical server with a server that has an X25519
\* key, a Tier not above MaxTier and neither of the two lowest feature bits,
\* of minimal Score among those; there is none when no logical server qualifies.
C27_BestLogical ==
    blPc = "loaded" =>
        IF Qualifying = {} THEN blBest = 0
        ELSE /\ blBest \in Qualifying
             /\ \A i \in Qualifying : blLogicals[blBest].Score <= blLogicals[i].Score

\* the second logical server is proposed although the first has a lower Score,
\* because the first has a feature bit set
C27_Witness ==
    /\ blPc = "loaded"
    /\ Len(blLogicals) = 2
    /\ blLogicals[1].Score < blLogicals[2].Score
    /\ blLogicals[1].Features = 2
    /\ blLogicals[1].Tier <= blMaxTier
    /\ Len(blLogicals[1].Servers) = 2
    /\ blBest = 2

(***************************************************************************)
(* Claims about the select-all checkbox of the mail toolbar.               *)
(***************************************************************************)
\* C28: the checkbox is checked exactly when every element of the list is
\* selected; toggling it calls onCheck with the IDs of all elements, the new
\* checked value and replace = true.
C28_CheckedIffAllSelected ==
    ~lastCheck.off =>
        /\ checked <=> \A i \in 1..Len(elements) :
                          \E j \in 1..Len(selectedIDs) : selectedIDs[j] = IdOf(elements[i])
        /\ lastCheck.toggled =>
              /\ lastCheck.called
              /\ Len(lastCheck.IDs) = Len(elements)
              /\ \A i \in 1..Len(elements) : lastCheck.IDs[i] = IdOf(elements[i])
              /\ lastCheck.checked = ~checked
              /\ lastCheck.replace

(***************************************************************************)
(* Claims about getScopeFromProvider.                                      *)
(***************************************************************************)
IsChecked(t) == checkedTypes[t] = "true"

\* the scopes of a product when it is checked, nothing otherwise
ScopesIf(t, list) == IF IsChecked(t) THEN list ELSE <<>>

ScopeSet(l) == {l[i] : i \in 1..Len(l)}

\* C29: for Google and Outlook the result is the default scopes followed by the
\* scopes of exactly the checked products, mail, calendar, contacts in that
\* order; checking one more product removes no scope; any other provider
\* yields the empty list.
C29_ScopesOfCheckedProducts ==
    scopePc = "done" =>
        /\ provider = "GOOGLE" =>
              scopes = G_OAUTH_SCOPE_DEFAULT
                       \o ScopesIf(MAIL, G_OAUTH_SCOPE_MAIL_READONLY)
                       \o ScopesIf(CALENDAR, G_OAUTH_SCOPE_CALENDAR)
                       \o ScopesIf(CONTACTS, G_OAUTH_SCOPE_CONTACTS)
        /\ provider = "OUTLOOK" =>
              scopes = O_OAUTH_SCOPE_DEFAULT
                       \o ScopesIf(MAIL, O_OAUTH_SCOPE_MAIL)
                       \o ScopesIf(CALENDAR, O_OAUTH_SCOPE_CALENDAR)
                       \o ScopesIf(CONTACTS, O_OAUTH_SCOPE_CONTACTS)
        /\ provider \notin {"GOOGLE", "OUTLOOK"} => scopes = <<>>
        /\ \A t \in ImportTypes :
              ScopeSet(scopes) \subseteq
                  ScopeSet(getScopeFromProvider(provider, [checkedTypes EXCEPT ![t] = "true"]))

\* Outlook asked with mail and contacts checked and calendar unchecked
C29_Witness ==
    /\ scopePc = "done"
    /\ provider = "OUTLOOK"
    /\ checkedTypes[MAIL] = "true"
    /\ checkedTypes[CALENDAR] = "false"
    /\ checkedTypes[CONTACTS] = "true"
    /\ scopes = <<"email", "openid", "User.Read", "offline_access", "Mail.read", "Contacts.read">>

(***************************************************************************)
(* Claims about the calendar select of the event modal.                    *)
(***************************************************************************)
\* the first member of the answered calendar has no email, or one that is the
\* email of none of the user's addresses
NoAddressForMember(b) ==
    \/ b.Members = <<>>
    \/ b.Members[1].Email = ""
    \/ \A i \in 1..Len(Addresses) : Addresses[i].Email # b.Members[1].Email

\* C30: when the first member of the new calendar has no email or an email of
\* none of the user's addresses, handleChangeCalendar throws 'Address does not
\* exist' and the model is not touched; when it succeeds, the notifications
\* the user customised are kept and default ones become the new defaults.
C30_ChangeCalendar ==
    (lastChange.ended /\ lastChange.thrown # "request") =>
        LET b == lastChange.bootstrap
            before == lastChange.before
        IN IF NoAddressForMember(b)
           THEN /\ lastChange.thrown = "Address does not exist"
                /\ ~lastChange.setModel
                /\ model = before
           ELSE /\ lastChange.setModel
                /\ model.partDayNotifications =
                      (IF before.hasPartDayDefaultNotifications
                       THEN notificationsToModel(b.DefaultPartDayNotifications, FALSE)
                       ELSE before.partDayNotifications)
                /\ model.fullDayNotifications =
                      (IF before.hasFullDayDefaultNotifications
                       THEN notificationsToModel(b.DefaultFullDayNotifications, TRUE)
                       ELSE before.fullDayNotifications)

====
